---- MODULE Spec2Model ----
(***************************************************************************)
(* Model of src/src/Chat.ts (clowdr-backend): the request handlers         *)
(* handleCreateChat and handleInviteToChat (the later definitions, lines   *)
(* 436-756), the helpers ensureTwilioUsersExist, getOrCreateTextChat and   *)
(* updateTextChatACLs, the chat provider (Twilio) state they act on and    *)
(* the Parse mirror store of TextChat objects.                             *)
(*                                                                         *)
(* Every `await` of a handler on mutable provider or store state is one    *)
(* step of the model, so that requests interleave where the code yields.   *)
(* Awaits on data that no handler changes (profiles, roles, the request    *)
(* intro) are folded into the step that follows them.                      *)
(***************************************************************************)
EXTENDS Integers, Sequences, FiniteSets, Bags, TLC

(***************************************************************************)
(* Bounds of the model.                                                    *)
(***************************************************************************)
\* Number of requests (handler invocations) of one behaviour.
MaxReqs == 2

\* Reaction requests
MaxReacts == 2

Slots == 1 .. MaxReqs

ReactSlots == 1 .. MaxReacts

(***************************************************************************)
(* JavaScript values of a request body, tagged with their typeof.          *)
(* Strings are sequences of one-character strings.                         *)
(***************************************************************************)
Undef == [t |-> "undefined", v |-> <<>>]
Str(s) == [t |-> "string", v |-> s]
Num(n) == [t |-> "number", v |-> n]
Bool(b) == [t |-> "boolean", v |-> b]
Arr(a) == [t |-> "array", v |-> a]

\* !x of JavaScript
Falsy(x) ==
    \/ x.t = "undefined"
    \/ x.t = "string" /\ x.v = <<>>
    \/ x.t = "number" /\ x.v = 0
    \/ x.t = "boolean" /\ x.v = FALSE

\* String.prototype.trim
RECURSIVE TrimStart(_)
TrimStart(s) ==
    IF s # <<>> /\ Head(s) = " " THEN TrimStart(Tail(s)) ELSE s

RECURSIVE TrimEnd(_)
TrimEnd(s) ==
    IF s # <<>> /\ s[Len(s)] = " " THEN TrimEnd(SubSeq(s, 1, Len(s) - 1)) ELSE s

Trim(s) == TrimEnd(TrimStart(s))

\* String.prototype.substr(0, n)
Substr0(s, n) == SubSeq(s, 1, IF Len(s) < n THEN Len(s) ELSE n)

\* Collation order of the characters that occur in identities.
CharOrder == <<"-", "1", "2", "3", "4", "5", "a", "b", "c", "d", "m">>

Ord(c) == CHOOSE i \in 1 .. Len(CharOrder) : CharOrder[i] = c

\* String.prototype.localeCompare as V8 computes it: -1, 0 or 1.
RECURSIVE localeCompare(_, _)
localeCompare(a, b) ==
    IF a = <<>> /\ b = <<>> THEN 0
    ELSE IF a = <<>> THEN -1
    ELSE IF b = <<>> THEN 1
    ELSE IF Ord(Head(a)) < Ord(Head(b)) THEN -1
    ELSE IF Ord(Head(a)) > Ord(Head(b)) THEN 1
    ELSE localeCompare(Tail(a), Tail(b))

(***************************************************************************)
(* The conference: user profiles, their accounts and privileges.           *)
(***************************************************************************)
\* Profile ids of the conference's participants.
Alice == <<"a">>
Bob == <<"b">>
Mgr == <<"m">>
\* An id that resolves to no profile of the conference.
Nobody == <<"d">>

Profiles == {Alice, Bob, Mgr}

\* getUserProfileByID(id, conf): the profile, or undefined
getUserProfileByID(id) == IF id \in Profiles THEN Str(id) ELSE Undef

\* isUserInRoles(user, conf, ["admin", "manager"])
isUserInRoles(id) == id = Mgr

PublicMode == <<"p", "u", "b", "l", "i", "c">>
PrivateMode == <<"p", "r", "i", "v", "a", "t", "e">>

\* Twilio max-length of a channel's unique name
MaxKeyLen == 64

\* uuidv4(): a string no other request draws
uuidv4(r) == <<"u", CharOrder[r + 1]>>

(***************************************************************************)
(* handleCreateChat: validation of the request body (lines 452-504).       *)
(***************************************************************************)
Resp(status, msg, via) == [status |-> status, msg |-> msg, via |-> via]

NoResp == Resp(0, "", "")

\* next(e): the unhandled-error path answers with a server error
Unhandled == Resp(500, "", "next")

\* req.body.title?.trim() throws a TypeError on a value without trim()
TitleTrimThrows(title) == title.t \notin {"undefined", "string"}

\* title after  let title = req.body.title?.trim()
TrimmedTitle(title) == IF title.t = "string" THEN Str(Trim(title.v)) ELSE Undef

AllStrings(a) == \A i \in 1 .. Len(a) : a[i].t = "string"

\* _userProfileIdsToInvite.filter(x => x !== userProfile.id)
RECURSIVE FilterNotSelf(_, _)
FilterNotSelf(a, self) ==
    IF a = <<>> THEN <<>>
    ELSE IF Head(a).v = self THEN FilterNotSelf(Tail(a), self)
    ELSE <<Head(a).v>> \o FilterNotSelf(Tail(a), self)

\* _userProfilesToInvite.every(x => !!x)
usersValid(ids) == \A i \in 1 .. Len(ids) : ~Falsy(getUserProfileByID(ids[i]))

\* The response of the validation of handleCreateChat, NoResp when it passes.
CreateChatValidate(self, body) ==
    IF TitleTrimThrows(body.title) THEN Unhandled
    ELSE IF Falsy(body.invite) \/ Falsy(TrimmedTitle(body.title)) \/ Falsy(body.mode)
        THEN Resp(400, "Missing request parameter(s).", "send")
    ELSE IF body.invite.t # "array"
        THEN Resp(400, "Invited members should be an array.", "send")
    ELSE IF ~AllStrings(body.invite.v)
        THEN Resp(400, "Invited member ids should be strings.", "send")
    ELSE IF ~(body.mode.t = "string" /\ body.mode.v \in {PublicMode, PrivateMode})
        THEN Resp(400, "Mode should be 'public' or 'private'.", "send")
    ELSE IF Len(Trim(TrimmedTitle(body.title).v)) < 5
        THEN Resp(400, "Title should be a trimmed string of at least 5 non-empty characters.", "send")
    ELSE IF ~usersValid(FilterNotSelf(body.invite.v, self))
        THEN Resp(400, "Users to invite invalid.", "send")
    ELSE NoResp

\* isDMOf without the test of the mode and of the number of invitees.
isDMOf_anyList(isPrivate, toInvite, forVideoRoom) ==
    Len(toInvite) >= 1 /\ ~(forVideoRoom.t = "boolean" /\ forVideoRoom.v = TRUE)

\* const isDM = isPrivate && userProfilesToInvite.length === 1 && (req.body.forVideoRoom !== true)
isDMOf(isPrivate, toInvite, forVideoRoom) ==
    isPrivate /\ Len(toInvite) = 1 /\ ~(forVideoRoom.t = "boolean" /\ forVideoRoom.v = TRUE)

\* uniqueNameOf without the ordering of the two ids.
uniqueNameOf_unordered(self, toInvite, isDM, uuid) ==
    Substr0(IF isDM THEN self \o <<"-">> \o toInvite[1] ELSE self \o <<"-">> \o uuid,
            MaxKeyLen)

\* const uniqueName = (isDM ? ... : ...).substr(0, 64)
uniqueNameOf(self, toInvite, isDM, uuid) ==
    Substr0(IF isDM
            THEN IF localeCompare(self, toInvite[1]) = -1
                 THEN self \o <<"-">> \o toInvite[1]
                 ELSE toInvite[1] \o <<"-">> \o self
            ELSE self \o <<"-">> \o uuid,
            MaxKeyLen)

(***************************************************************************)
(* State.                                                                  *)
(***************************************************************************)
VARIABLES
    req,         \* per request: the handler's position, locals and response,
                 \* and the history of the calls it issued (calls, thrown)
    channels,    \* provider: channel SID -> channel
    members,     \* provider: channel SID -> bag of memberships
    invites,     \* provider: channel SID -> bag of invitations
    users,       \* provider: identities of the service-level users
    textChats,   \* mirror store: object id -> TextChat
    inviteCalls, \* history: bag of <<channel SID, identity>>, one copy per
                 \* invites().create issued
    messages,    \* provider: <<channel SID, message SID>> -> the attributes of
                 \* the message, as JSON.parse reads them
    reactReq     \* per reaction request: the handler's position, locals and
                 \* response

vars == <<req, channels, members, invites, users, textChats, inviteCalls,
          messages, reactReq>>

\* What the chat handlers leave alone, and what the reaction handlers do.
reactionState == <<messages, reactReq>>

chatState == <<req, textChats, inviteCalls>>

provider == <<channels, members, invites, users>>

\* The SID the provider gives the channel that request r creates.
SidOf(r) == <<"C", "H", CharOrder[r + 1]>>

Sids == {SidOf(r) : r \in Slots}

\* The object id the store gives the TextChat that request r saves.
ObjIdOf(r) == <<"T", "C", CharOrder[r + 1]>>

NoSid == <<>>

SystemIdentity == <<"s", "y", "s", "t", "e", "m">>

ChannelAdmin == "channel admin"
ChannelUser == "channel user"

\* new Parse.ACL()
EmptyACL == [publicRead |-> FALSE, publicWrite |-> FALSE,
             roleRead |-> {}, roleWrite |-> {}, userRead |-> {}]

IdleReq ==
    [kind |-> "none", pc |-> "idle", self |-> <<>>, body |-> Undef,
     toInvite |-> <<>>, isPrivate |-> FALSE, isDM |-> FALSE,
     uniqueName |-> <<>>, friendlyName |-> <<>>, createdBy |-> <<>>,
     newChannel |-> NoSid, members |-> {}, invites |-> {}, pending |-> {},
     existingUsers |-> {}, textChat |-> NoSid, existingACL |-> EmptyACL,
     allIds |-> {}, resp |-> NoResp, calls |-> EmptyBag, thrown |-> {}]

IdleReact ==
    [kind |-> "none", pc |-> "idle", self |-> <<>>, body |-> Undef,
     attributes |-> Undef, resp |-> NoResp, updates |-> 0]

Init ==
    /\ messages = <<>>
    /\ reactReq = [r \in ReactSlots |-> IdleReact]
    /\ req = [r \in Slots |-> IdleReq]
    /\ channels = <<>>
    /\ members = [c \in Sids |-> EmptyBag]
    /\ invites = [c \in Sids |-> EmptyBag]
    /\ users = {}
    /\ textChats = <<>>
    /\ inviteCalls = EmptyBag

\* The handler has returned: its locals are gone, its response stays.
Finished(rq, resp) ==
    [rq EXCEPT !.pc = "done", !.resp = resp, !.members = {}, !.invites = {},
               !.pending = {}, !.existingUsers = {}, !.allIds = {},
               !.existingACL = EmptyACL]

\* x => x.identity over a members or invites list
Identities(bag) == {m.identity : m \in BagToSet(bag)}

\* History: the request issued the mutating call named.
Called(rq, call) == [rq EXCEPT !.calls = @ (+) SetToBag({call})]

\* History: the request issued the mutating call named, and it threw.
Threw(rq, call) == [Called(rq, call) EXCEPT !.thrown = @ \cup {call}]

(***************************************************************************)
(* handleCreateChat (lines 436-618).                                       *)
(***************************************************************************)
\* Lines 446-532: request intro, validation, the derived names.
handleCreateChat(r, self, body) ==
    /\ req[r].pc = "idle"
    /\ LET v == CreateChatValidate(self, body)
           rq == [IdleReq EXCEPT !.kind = "create", !.self = self, !.body = body]
       IN  IF v # NoResp
           THEN req' = [req EXCEPT ![r] = Finished(rq, v)]
           ELSE LET toInvite == FilterNotSelf(body.invite.v, self)
                    isPrivate == body.mode.v = PrivateMode
                    isDM == isDMOf(isPrivate, toInvite, body.forVideoRoom)
                    uniqueName == uniqueNameOf(self, toInvite, isDM, uuidv4(r))
                IN  req' = [req EXCEPT ![r] =
                        [rq EXCEPT !.toInvite = toInvite,
                                   !.isPrivate = isPrivate,
                                   !.isDM = isDM,
                                   !.uniqueName = uniqueName,
                                   !.friendlyName = IF isDM THEN uniqueName
                                                    ELSE Trim(TrimmedTitle(body.title).v),
                                   !.createdBy = IF isDM THEN SystemIdentity ELSE self,
                                   !.pc = IF isDM THEN "listChannels"
                                          ELSE "createChannel"]]
    /\ UNCHANGED <<provider, textChats, inviteCalls>>
    /\ UNCHANGED reactionState

\* listChannels that finds no channel.
listChannels_noMatch(r) ==
    /\ req[r].pc = "listChannels"
    /\ req' = [req EXCEPT ![r].pc = "createChannel"]
    /\ UNCHANGED <<provider, textChats, inviteCalls>>
    /\ UNCHANGED reactionState

\* Lines 527-544: channels.list() filtered by the unique name; the first match.
\* The order of the provider's list is not the code's: any match may be first.
listChannels(r) ==
    /\ req[r].pc = "listChannels"
    /\ LET existingChannels ==
               {c \in DOMAIN channels : channels[c].uniqueName = req[r].uniqueName}
       IN  IF existingChannels # {}
           THEN \E c \in existingChannels :
                    req' = [req EXCEPT ![r].newChannel = c,
                                       ![r].friendlyName = channels[c].friendlyName,
                                       ![r].pc = "listMembers"]
           ELSE req' = [req EXCEPT ![r].pc = "createChannel"]
    /\ UNCHANGED <<provider, textChats, inviteCalls>>
    /\ UNCHANGED reactionState

\* Line 546: newChannel.members().list(); a channel deleted meanwhile throws.
listMembers(r) ==
    /\ req[r].pc = "listMembers"
    /\ IF req[r].newChannel \in DOMAIN channels
       THEN req' = [req EXCEPT ![r].members = Identities(members[req[r].newChannel]),
                               ![r].pc = "listInvites"]
       ELSE req' = [req EXCEPT ![r] = Finished(@, Unhandled)]
    /\ UNCHANGED <<provider, textChats, inviteCalls>>
    /\ UNCHANGED reactionState

\* The invitees to create without the look at the two lists.
ToCreate_all(toInvite, memberIds, inviteIds) == 1 .. Len(toInvite)

\* if (!members.includes(profile.id) && !invites.includes(profile.id))
ToCreate(toInvite, memberIds, inviteIds) ==
    {i \in 1 .. Len(toInvite) :
        toInvite[i] \notin memberIds /\ toInvite[i] \notin inviteIds}

\* Line 547, and the branch of line 549.
listInvites(r) ==
    /\ req[r].pc = "listInvites"
    /\ IF req[r].newChannel \in DOMAIN channels
       THEN LET inv == Identities(invites[req[r].newChannel])
                todo == ToCreate(req[r].toInvite, req[r].members, inv)
            IN  req' = [req EXCEPT
                    ![r].invites = inv,
                    ![r].pending = todo,
                    ![r].pc = IF req[r].self \notin req[r].members
                              THEN "addMemberExisting"
                              ELSE IF todo # {} THEN "inviteExisting"
                              ELSE "getOrCreateTextChat"]
       ELSE req' = [req EXCEPT ![r] = Finished(@, Unhandled)]
    /\ UNCHANGED <<provider, textChats, inviteCalls>>
    /\ UNCHANGED reactionState

\* The requester's role without the DM case.
memberRole_alwaysAdmin(isDM, self) == ChannelAdmin

\* roleSid: isDM && !userIsManager ? channelUserRole.sid : channelAdminRole.sid
memberRole(isDM, self) ==
    IF isDM /\ ~isUserInRoles(self) THEN ChannelUser ELSE ChannelAdmin

\* roleSid: userIsManager ? channelAdminRole.sid : channelUserRole.sid
inviteRole(id) == IF isUserInRoles(id) THEN ChannelAdmin ELSE ChannelUser

\* The provider's members().create. Whether the provider drops a pending
\* invitation of the identity it makes a member is the provider's choice
\* (drop): the code asks for nothing of the kind.
membersCreate(c, id, role, drop) ==
    /\ members' = [members EXCEPT ![c] =
                      @ (+) SetToBag({[identity |-> id, roleSid |-> role]})]
    /\ invites' = IF drop
                  THEN [invites EXCEPT ![c] =
                           [m \in {x \in DOMAIN @ : x.identity # id} |-> @[m]]]
                  ELSE invites

\* The provider's invites().create.
invitesCreate(c, id, role) ==
    /\ invites' = [invites EXCEPT ![c] =
                      @ (+) SetToBag({[identity |-> id, roleSid |-> role]})]
    /\ inviteCalls' = inviteCalls (+) SetToBag({<<c, id>>})

\* addMemberExisting whose failure goes to the catch that removes the channel.
addMemberExisting_compensates(r, ok, drop) ==
    /\ req[r].pc = "addMemberExisting"
    /\ ok => req[r].newChannel \in DOMAIN channels
    /\ drop => ok /\ req[r].self \in Identities(invites[req[r].newChannel])
    /\ IF ok
       THEN /\ membersCreate(req[r].newChannel, req[r].self,
                             memberRole(req[r].isDM, req[r].self), drop)
            /\ req' = [req EXCEPT ![r] =
                   [Called(@, "members.create") EXCEPT
                       !.pc = IF req[r].pending # {} THEN "inviteExisting"
                              ELSE "getOrCreateTextChat"]]
       ELSE /\ req' = [req EXCEPT ![r] =
                   [Threw(@, "members.create") EXCEPT !.pc = "removeChannel"]]
            /\ UNCHANGED <<members, invites>>
    /\ UNCHANGED <<channels, users, textChats, inviteCalls>>
    /\ UNCHANGED reactionState

\* Lines 549-555: the requester's membership of the existing channel.
\* ok: callWithRetry returns; ~ok: it throws, and nothing catches before next(e).
addMemberExisting(r, ok, drop) ==
    /\ req[r].pc = "addMemberExisting"
    /\ ok => req[r].newChannel \in DOMAIN channels
    /\ drop => ok /\ req[r].self \in Identities(invites[req[r].newChannel])
    /\ IF ok
       THEN /\ membersCreate(req[r].newChannel, req[r].self,
                             memberRole(req[r].isDM, req[r].self), drop)
            /\ req' = [req EXCEPT ![r] =
                   [Called(@, "members.create") EXCEPT
                       !.pc = IF req[r].pending # {} THEN "inviteExisting"
                              ELSE "getOrCreateTextChat"]]
       ELSE /\ req' = [req EXCEPT ![r] =
                   Finished(Threw(@, "members.create"), Unhandled)]
            /\ UNCHANGED <<members, invites>>
    /\ UNCHANGED <<channels, users, textChats, inviteCalls>>
    /\ UNCHANGED reactionState

\* Lines 557-565: one invitation of the joint await, in any order. When one
\* throws, the request is followed to its answer; the invitations of the same
\* await that had not landed by then are not followed further (here and in
\* inviteNew and inviteTargets).
inviteExisting(r, i, ok) ==
    /\ req[r].pc = "inviteExisting"
    /\ i \in req[r].pending
    /\ ok => req[r].newChannel \in DOMAIN channels
    /\ IF ok
       THEN /\ invitesCreate(req[r].newChannel, req[r].toInvite[i],
                             inviteRole(req[r].toInvite[i]))
            /\ req' = [req EXCEPT ![r] =
                   [Called(@, "invites.create") EXCEPT
                       !.pending = @ \ {i},
                       !.pc = IF req[r].pending = {i} THEN "getOrCreateTextChat"
                              ELSE "inviteExisting"]]
       ELSE /\ req' = [req EXCEPT ![r] =
                   Finished(Threw(@, "invites.create"), Unhandled)]
            /\ inviteCalls' = inviteCalls (+)
                   SetToBag({<<req[r].newChannel, req[r].toInvite[i]>>})
            /\ UNCHANGED invites
    /\ UNCHANGED <<channels, members, users, textChats>>
    /\ UNCHANGED reactionState

(***************************************************************************)
(* handleCreateChat, the new-channel path (lines 567-606).                 *)
(***************************************************************************)
\* createChannel that looks for the unique name once more and takes the
\* channel that carries it by now.
createChannel_unlessNamed(r, ok) ==
    /\ req[r].pc = "createChannel"
    /\ LET named == {c \in DOMAIN channels :
                        channels[c].uniqueName = req[r].uniqueName}
       IN  IF ok /\ named # {}
           THEN /\ \E c \in named :
                       req' = [req EXCEPT ![r] =
                           [Called(@, "channels.create") EXCEPT
                               !.newChannel = c, !.pc = "listMembers"]]
                /\ UNCHANGED channels
           ELSE IF ok
           THEN /\ channels' = channels @@ (SidOf(r) :>
                       [uniqueName |-> req[r].uniqueName,
                        friendlyName |-> req[r].friendlyName,
                        createdBy |-> req[r].createdBy,
                        type |-> req[r].body.mode.v,
                        attributes |-> [isDM |-> req[r].isDM]])
                /\ req' = [req EXCEPT ![r] =
                       [Called(@, "channels.create") EXCEPT
                           !.newChannel = SidOf(r), !.pc = "usersList"]]
           ELSE /\ req' = [req EXCEPT ![r] =
                       Finished(Threw(@, "channels.create"), Unhandled)]
                /\ UNCHANGED channels
    /\ UNCHANGED <<members, invites, users, textChats, inviteCalls>>
    /\ UNCHANGED reactionState

\* Lines 568-574: service.channels.create under callWithRetry; a throw here
\* is outside the inner try and goes to next(e).
createChannel(r, ok) ==
    /\ req[r].pc = "createChannel"
    /\ IF ok
       THEN /\ channels' = channels @@ (SidOf(r) :>
                   [uniqueName |-> req[r].uniqueName,
                    friendlyName |-> req[r].friendlyName,
                    createdBy |-> req[r].createdBy,
                    type |-> req[r].body.mode.v,
                    attributes |-> [isDM |-> req[r].isDM]])
            /\ req' = [req EXCEPT ![r] =
                   [Called(@, "channels.create") EXCEPT
                       !.newChannel = SidOf(r), !.pc = "usersList"]]
       ELSE /\ req' = [req EXCEPT ![r] =
                   Finished(Threw(@, "channels.create"), Unhandled)]
            /\ UNCHANGED channels
    /\ UNCHANGED <<members, invites, users, textChats, inviteCalls>>
    /\ UNCHANGED reactionState

\* [...userProfilesToInvite, userProfile]
Participants(rq) == {rq.toInvite[i] : i \in 1 .. Len(rq.toInvite)} \cup {rq.self}

\* usersList that goes on without creating the users the list lacks.
usersList_noCreate(r) ==
    /\ req[r].pc = "usersList"
    /\ req' = [req EXCEPT ![r].existingUsers = users, ![r].pc = "addMemberNew"]
    /\ UNCHANGED <<provider, textChats, inviteCalls>>
    /\ UNCHANGED reactionState

\* Line 349 (ensureTwilioUsersExist): service.users.list()
usersList(r) ==
    /\ req[r].pc = "usersList"
    /\ req' = [req EXCEPT
           ![r].existingUsers = users,
           ![r].pc = IF Participants(req[r]) \subseteq users
                     THEN "addMemberNew" ELSE "usersCreate"]
    /\ UNCHANGED <<provider, textChats, inviteCalls>>
    /\ UNCHANGED reactionState

\* Lines 350-358 (ensureTwilioUsersExist): users.create for every profile
\* the list did not hold, awaited jointly. ~ok: one of them rejects, after
\* any of the others (done) were created; the catch of line 597 takes over.
usersCreate(r, ok, done) ==
    /\ req[r].pc = "usersCreate"
    /\ LET missing == Participants(req[r]) \ req[r].existingUsers
       IN  /\ done \subseteq missing
           /\ ok <=> done = missing
           /\ users' = users \cup done
           /\ req' = [req EXCEPT ![r] =
                  IF ok
                  THEN [Called(@, "users.create") EXCEPT !.pc = "addMemberNew"]
                  ELSE [Threw(@, "users.create") EXCEPT !.pc = "removeChannel"]]
    /\ UNCHANGED <<channels, members, invites, textChats, inviteCalls>>
    /\ UNCHANGED reactionState

\* Lines 579-585: the requester's membership of the new channel.
addMemberNew(r, ok) ==
    /\ req[r].pc = "addMemberNew"
    /\ IF ok
       THEN /\ membersCreate(req[r].newChannel, req[r].self,
                             memberRole(req[r].isDM, req[r].self), FALSE)
            /\ req' = [req EXCEPT ![r] =
                   [Called(@, "members.create") EXCEPT
                       !.pending = 1 .. Len(req[r].toInvite),
                       !.pc = IF req[r].toInvite # <<>> THEN "inviteNew"
                              ELSE "getOrCreateTextChat"]]
       ELSE /\ req' = [req EXCEPT ![r] =
                   [Threw(@, "members.create") EXCEPT !.pc = "removeChannel"]]
            /\ UNCHANGED <<members, invites>>
    /\ UNCHANGED <<channels, users, textChats, inviteCalls>>
    /\ UNCHANGED reactionState

\* Lines 587-593: one invitation of the joint await, in any order.
inviteNew(r, i, ok) ==
    /\ req[r].pc = "inviteNew"
    /\ i \in req[r].pending
    /\ IF ok
       THEN /\ invitesCreate(req[r].newChannel, req[r].toInvite[i],
                             inviteRole(req[r].toInvite[i]))
            /\ req' = [req EXCEPT ![r] =
                   [Called(@, "invites.create") EXCEPT
                       !.pending = @ \ {i},
                       !.pc = IF req[r].pending = {i} THEN "getOrCreateTextChat"
                              ELSE "inviteNew"]]
       ELSE /\ req' = [req EXCEPT ![r] =
                   [Threw(@, "invites.create") EXCEPT
                       !.pending = {}, !.pc = "removeChannel"]]
            /\ inviteCalls' = inviteCalls (+)
                   SetToBag({<<req[r].newChannel, req[r].toInvite[i]>>})
            /\ UNCHANGED invites
    /\ UNCHANGED <<channels, members, users, textChats>>
    /\ UNCHANGED reactionState

\* The provider's channel remove(): the channel goes with its memberships
\* and invitations.
channelRemove(c) ==
    /\ channels' = [x \in DOMAIN channels \ {c} |-> channels[x]]
    /\ members' = [members EXCEPT ![c] = EmptyBag]
    /\ invites' = [invites EXCEPT ![c] = EmptyBag]

\* removeChannel that answers without removing the channel.
removeChannel_keepsChannel(r, ok) ==
    /\ req[r].pc = "removeChannel"
    /\ req' = [req EXCEPT ![r] =
           IF ok
           THEN Finished(Called(@, "channel.remove"),
                         Resp(500, "Failed to add or invite members.", "send"))
           ELSE Finished(Threw(@, "channel.remove"), Unhandled)]
    /\ UNCHANGED <<provider, textChats, inviteCalls>>
    /\ UNCHANGED reactionState

\* removeChannel whose retry wrapper has no bound on its attempts: a
\* deletion that failed is attempted again after the backoff.
removeChannel_retriesForever(r, ok) ==
    /\ req[r].pc \in {"removeChannel", "removeChannelBackoff"}
    /\ IF ok
       THEN /\ channelRemove(req[r].newChannel)
            /\ req' = [req EXCEPT ![r] =
                   Finished(Called(@, "channel.remove"),
                            Resp(500, "Failed to add or invite members.", "send"))]
       ELSE /\ req' = [req EXCEPT ![r].pc =
                   IF @ = "removeChannel" THEN "removeChannelBackoff"
                                          ELSE "removeChannel"]
            /\ UNCHANGED <<channels, members, invites>>
    /\ UNCHANGED <<users, textChats, inviteCalls>>
    /\ UNCHANGED reactionState

\* Lines 597-605: the catch. newChannel.remove() under callWithRetry, then
\* the 500 response; when remove() throws as well, next(e).
removeChannel(r, ok) ==
    /\ req[r].pc = "removeChannel"
    /\ IF ok
       THEN /\ channelRemove(req[r].newChannel)
            /\ req' = [req EXCEPT ![r] =
                   Finished(Called(@, "channel.remove"),
                            Resp(500, "Failed to add or invite members.", "send"))]
       ELSE /\ req' = [req EXCEPT ![r] =
                   Finished(Threw(@, "channel.remove"), Unhandled)]
            /\ UNCHANGED <<channels, members, invites>>
    /\ UNCHANGED <<users, textChats, inviteCalls>>
    /\ UNCHANGED reactionState

(***************************************************************************)
(* getOrCreateTextChat (lines 364-381) and updateTextChatACLs (383-425).   *)
(***************************************************************************)
Conference == "conf"

\* With isPrivate undefined (handleInviteToChat), lines 389-392:
\* isPrivate = existingACL?.getRoleReadAccess(attendeeRole) ?? false
isPrivateOfACL(existingACL) == "attendee" \in existingACL.roleRead

\* The entry of updateTextChatACLs for a request whose text chat carries acl.
EnterACLs(rq, acl) ==
    LET isPrivate == IF rq.kind = "create" THEN rq.isPrivate
                     ELSE isPrivateOfACL(acl)
    IN  [rq EXCEPT !.existingACL = acl,
                   !.isPrivate = isPrivate,
                   !.pc = IF isPrivate THEN "aclMembers" ELSE "aclSave"]

\* Lines 365-369: textChatQ.first(); the object found is returned.
\* ok: the query returns; ~ok: it throws, and the error goes to next(e).
getOrCreateTextChat(r, ok) ==
    /\ req[r].pc = "getOrCreateTextChat"
    /\ LET found == {o \in DOMAIN textChats :
                        /\ textChats[o].conference = Conference
                        /\ textChats[o].twilioID = req[r].newChannel}
       IN  IF ~ok
           THEN req' = [req EXCEPT ![r] =
                    Finished([@ EXCEPT !.thrown = @ \cup {"textChat.first"}],
                             Unhandled)]
           ELSE IF found # {}
           THEN \E o \in found :
                    req' = [req EXCEPT ![r] =
                        EnterACLs([@ EXCEPT !.textChat = o], textChats[o].acl)]
           ELSE req' = [req EXCEPT ![r].pc = "textChatSave"]
    /\ UNCHANGED <<provider, textChats, inviteCalls>>
    /\ UNCHANGED reactionState

\* Lines 370-378: nothing was found; a new TextChat is saved (the save is
\* not awaited: it reaches the store while the handler goes on).
textChatSave(r) ==
    /\ req[r].pc = "textChatSave"
    /\ textChats' = textChats @@ (ObjIdOf(r) :>
           [autoWatch |-> req[r].isDM,
            twilioID |-> req[r].newChannel,
            conference |-> Conference,
            mirrored |-> FALSE,
            name |-> req[r].friendlyName,
            acl |-> EmptyACL])
    /\ req' = [req EXCEPT ![r] =
           EnterACLs([Called(@, "textChat.create") EXCEPT !.textChat = ObjIdOf(r)],
                     EmptyACL)]
    /\ UNCHANGED <<provider, inviteCalls>>
    /\ UNCHANGED reactionState

\* Line 405: newChannel.members().list()
aclMembers(r) ==
    /\ req[r].pc = "aclMembers"
    /\ IF req[r].newChannel \in DOMAIN channels
       THEN req' = [req EXCEPT ![r].allIds = Identities(members[req[r].newChannel]),
                               ![r].pc = "aclInvites"]
       ELSE req' = [req EXCEPT ![r] = Finished(@, Unhandled)]
    /\ UNCHANGED <<provider, textChats, inviteCalls>>
    /\ UNCHANGED reactionState

\* Lines 406-410: newChannel.invites().list(); allIds
aclInvites(r) ==
    /\ req[r].pc = "aclInvites"
    /\ IF req[r].newChannel \in DOMAIN channels
       THEN req' = [req EXCEPT
                ![r].allIds = @ \cup Identities(invites[req[r].newChannel]),
                ![r].pc = "aclSave"]
       ELSE req' = [req EXCEPT ![r] = Finished(@, Unhandled)]
    /\ UNCHANGED <<provider, textChats, inviteCalls>>
    /\ UNCHANGED reactionState

\* profile.get("user"): the account of a profile
userOf(id) == <<"U">> \o id

\* newACL that grants read access without the look at the profile found.
newACL_noProfileCheck(isPrivate, allIds) ==
    [publicRead |-> FALSE,
     publicWrite |-> FALSE,
     roleRead |-> {"manager", "admin"} \cup (IF isPrivate THEN {} ELSE {"attendee"}),
     roleWrite |-> {"manager", "admin"},
     userRead |-> IF isPrivate THEN {userOf(id) : id \in allIds} ELSE {}]

\* Lines 394-421: the access list built from scratch.
newACL(isPrivate, allIds) ==
    [publicRead |-> FALSE,
     publicWrite |-> FALSE,
     roleRead |-> {"manager", "admin"} \cup (IF isPrivate THEN {} ELSE {"attendee"}),
     roleWrite |-> {"manager", "admin"},
     userRead |-> IF isPrivate
                  THEN {userOf(id) : id \in {x \in allIds : ~Falsy(getUserProfileByID(x))}}
                  ELSE {}]

\* aclSave whose failure goes to the catch that removes the channel.
aclSave_compensates(r, ok) ==
    /\ req[r].pc = "aclSave"
    /\ IF ok
       THEN /\ textChats' = [textChats EXCEPT ![req[r].textChat].acl =
                                newACL(req[r].isPrivate, req[r].allIds)]
            /\ req' = [req EXCEPT ![r] =
                   Finished(Called(@, "textChat.save"), Resp(200, "", "send"))]
       ELSE /\ req' = [req EXCEPT ![r] =
                   [Threw(@, "textChat.save") EXCEPT !.pc = "removeChannel"]]
            /\ UNCHANGED textChats
    /\ UNCHANGED <<provider, inviteCalls>>
    /\ UNCHANGED reactionState

\* Lines 423-424, and the 200 response of the handler (611-613, 735-737).
aclSave(r, ok) ==
    /\ req[r].pc = "aclSave"
    /\ IF ok
       THEN /\ textChats' = [textChats EXCEPT ![req[r].textChat].acl =
                                newACL(req[r].isPrivate, req[r].allIds)]
            /\ req' = [req EXCEPT ![r] =
                   Finished(Called(@, "textChat.save"), Resp(200, "", "send"))]
       ELSE /\ req' = [req EXCEPT ![r] =
                   Finished(Threw(@, "textChat.save"), Unhandled)]
            /\ UNCHANGED textChats
    /\ UNCHANGED <<provider, inviteCalls>>
    /\ UNCHANGED reactionState

(***************************************************************************)
(* handleInviteToChat (lines 637-756).                                     *)
(***************************************************************************)
\* Lines 645-693: the response of the validation, NoResp when it passes.
InviteValidate(self, body) ==
    IF Falsy(body.targetIdentities) \/ Falsy(body.channel)
        THEN Resp(400, "Missing request parameter(s).", "send")
    ELSE IF body.channel.t # "string"
        THEN Resp(400, "Channel should be a string.", "send")
    ELSE IF body.targetIdentities.t # "array"
        THEN Resp(400, "Invited members should be an array.", "send")
    ELSE IF ~AllStrings(body.targetIdentities.v)
        THEN Resp(400, "Invited member ids should be strings.", "send")
    ELSE IF Len(FilterNotSelf(body.targetIdentities.v, self)) = 0
        THEN Resp(400, "Invited members should be a non-empty array (that does not include yourself).", "send")
    ELSE IF ~usersValid(FilterNotSelf(body.targetIdentities.v, self))
        THEN Resp(400, "Users to invite invalid.", "send")
    ELSE NoResp

\* Lines 639-694: request intro and validation.
handleInviteToChat(r, self, body) ==
    /\ req[r].pc = "idle"
    /\ LET v == InviteValidate(self, body)
           rq == [IdleReq EXCEPT !.kind = "invite", !.self = self, !.body = body]
       IN  IF v # NoResp
           THEN req' = [req EXCEPT ![r] = Finished(rq, v)]
           ELSE req' = [req EXCEPT ![r] =
                    [rq EXCEPT !.toInvite = FilterNotSelf(body.targetIdentities.v, self),
                               !.pc = "fetchChannel"]]
    /\ UNCHANGED <<provider, textChats, inviteCalls>>
    /\ UNCHANGED reactionState

\* fetchChannel that does not look at the isDM attribute of the channel.
fetchChannel_noDMCheck(r) ==
    /\ req[r].pc = "fetchChannel"
    /\ LET channelSID == req[r].body.channel.v
       IN  IF channelSID \notin DOMAIN channels
           THEN req' = [req EXCEPT ![r] = Finished(@, Unhandled)]
           ELSE req' = [req EXCEPT
                    ![r].newChannel = channelSID,
                    ![r].friendlyName = channels[channelSID].friendlyName,
                    ![r].pc = "inviteListMembers"]
    /\ UNCHANGED <<provider, textChats, inviteCalls>>
    /\ UNCHANGED reactionState

\* fetchChannel that invites the first target before it looks at the isDM
\* attribute of the channel.
fetchChannel_invitesFirst(r) ==
    /\ req[r].pc = "fetchChannel"
    /\ LET channelSID == req[r].body.channel.v
       IN  IF channelSID \notin DOMAIN channels
           THEN /\ req' = [req EXCEPT ![r] = Finished(@, Unhandled)]
                /\ UNCHANGED <<invites, inviteCalls>>
           ELSE /\ invitesCreate(channelSID, req[r].toInvite[1],
                                 inviteRole(req[r].toInvite[1]))
                /\ IF channels[channelSID].attributes.isDM
                   THEN req' = [req EXCEPT ![r] =
                            Finished([Called(@, "invites.create") EXCEPT
                                         !.newChannel = channelSID, !.isDM = TRUE],
                                     Resp(400, "Cannot invite more users to a DM chat.", "send"))]
                   ELSE req' = [req EXCEPT ![r] =
                            [Called(@, "invites.create") EXCEPT
                                !.newChannel = channelSID,
                                !.friendlyName = channels[channelSID].friendlyName,
                                !.pc = "inviteListMembers"]]
    /\ UNCHANGED <<channels, members, users, textChats>>
    /\ UNCHANGED reactionState

\* Lines 701-717 and 744-747: channels(channelSID).fetch(), which rejects
\* for a SID the provider does not know, and the isDM attribute.
fetchChannel(r) ==
    /\ req[r].pc = "fetchChannel"
    /\ LET channelSID == req[r].body.channel.v
       IN  IF channelSID \notin DOMAIN channels
           THEN req' = [req EXCEPT ![r] = Finished(@, Unhandled)]
           ELSE IF channels[channelSID].attributes.isDM
           THEN req' = [req EXCEPT ![r] =
                    Finished([@ EXCEPT !.newChannel = channelSID, !.isDM = TRUE],
                             Resp(400, "Cannot invite more users to a DM chat.", "send"))]
           ELSE req' = [req EXCEPT
                    ![r].newChannel = channelSID,
                    ![r].friendlyName = channels[channelSID].friendlyName,
                    ![r].pc = "inviteListMembers"]
    /\ UNCHANGED <<provider, textChats, inviteCalls>>
    /\ UNCHANGED reactionState

\* Line 718: existingChannel.members().list()
inviteListMembers(r) ==
    /\ req[r].pc = "inviteListMembers"
    /\ IF req[r].newChannel \in DOMAIN channels
       THEN req' = [req EXCEPT ![r].members = Identities(members[req[r].newChannel]),
                               ![r].pc = "inviteListInvites"]
       ELSE req' = [req EXCEPT ![r] = Finished(@, Unhandled)]
    /\ UNCHANGED <<provider, textChats, inviteCalls>>
    /\ UNCHANGED reactionState

\* inviteListInvites without the membership check of the requester.
inviteListInvites_noMemberCheck(r) ==
    /\ req[r].pc = "inviteListInvites"
    /\ IF req[r].newChannel \notin DOMAIN channels
       THEN req' = [req EXCEPT ![r] = Finished(@, Unhandled)]
       ELSE LET inv == Identities(invites[req[r].newChannel])
                todo == ToCreate(req[r].toInvite, req[r].members, inv)
            IN  req' = [req EXCEPT
                    ![r].invites = inv,
                    ![r].pending = todo,
                    ![r].pc = IF todo # {} THEN "inviteTargets"
                              ELSE "getOrCreateTextChat"]
    /\ UNCHANGED <<provider, textChats, inviteCalls>>
    /\ UNCHANGED reactionState

\* Lines 719-721 and 739-742: invites().list(), and the membership check.
inviteListInvites(r) ==
    /\ req[r].pc = "inviteListInvites"
    /\ IF req[r].newChannel \notin DOMAIN channels
       THEN req' = [req EXCEPT ![r] = Finished(@, Unhandled)]
       ELSE IF req[r].self \notin req[r].members
       THEN req' = [req EXCEPT ![r] = Finished(@, Resp(403, "Access denied.", "send"))]
       ELSE LET inv == Identities(invites[req[r].newChannel])
                todo == ToCreate(req[r].toInvite, req[r].members, inv)
            IN  req' = [req EXCEPT
                    ![r].invites = inv,
                    ![r].pending = todo,
                    ![r].pc = IF todo # {} THEN "inviteTargets"
                              ELSE "getOrCreateTextChat"]
    /\ UNCHANGED <<provider, textChats, inviteCalls>>
    /\ UNCHANGED reactionState

\* Lines 722-730: one invitation of the joint await, in any order.
inviteTargets(r, i, ok) ==
    /\ req[r].pc = "inviteTargets"
    /\ i \in req[r].pending
    /\ ok => req[r].newChannel \in DOMAIN channels
    /\ IF ok
       THEN /\ invitesCreate(req[r].newChannel, req[r].toInvite[i],
                             inviteRole(req[r].toInvite[i]))
            /\ req' = [req EXCEPT ![r] =
                   [Called(@, "invites.create") EXCEPT
                       !.pending = @ \ {i},
                       !.pc = IF req[r].pending = {i} THEN "getOrCreateTextChat"
                              ELSE "inviteTargets"]]
       ELSE /\ req' = [req EXCEPT ![r] =
                   Finished(Threw(@, "invites.create"), Unhandled)]
            /\ inviteCalls' = inviteCalls (+)
                   SetToBag({<<req[r].newChannel, req[r].toInvite[i]>>})
            /\ UNCHANGED invites
    /\ UNCHANGED <<channels, members, users, textChats>>
    /\ UNCHANGED reactionState

(***************************************************************************)
(* Request bodies.                                                         *)
(***************************************************************************)
\* Longest invite list of a request body.
MaxInvite == 2

\* The arrays of id strings over ids, of length 0 .. MaxInvite.
IdArrays(ids) ==
    {Arr(a) : a \in UNION {[1 .. n -> {Str(id) : id \in ids}] : n \in 0 .. MaxInvite}}

\* The arrays of one id string.
OneIdArrays(ids) == {Arr(<<Str(id)>>) : id \in ids}

GoodTitle == Str(<<"h", "e", "l", "l", "o">>)

CreateBody(invite, mode, title, forVideoRoom) ==
    [invite |-> invite, mode |-> mode, title |-> title, forVideoRoom |-> forVideoRoom]

InviteBody(targetIdentities, channel) ==
    [targetIdentities |-> targetIdentities, channel |-> channel]

\* Bodies of createChat that pass every check of the validation that is
\* about the shape of the body, with the invite lists given.
ShapedCreateBodies(arrays, flags) ==
    {CreateBody(inv, Str(m), GoodTitle, f) :
        inv \in arrays, m \in {PublicMode, PrivateMode}, f \in flags}

\* One body of createChat for each check of the validation.
BadCreateBodies ==
    {CreateBody(Undef, Str(PrivateMode), GoodTitle, Undef),
     CreateBody(Str(<<"b">>), Str(PrivateMode), GoodTitle, Undef),
     CreateBody(Arr(<<Num(7)>>), Str(PrivateMode), GoodTitle, Undef),
     CreateBody(Arr(<<Str(Bob)>>), Str(<<"f", "o", "o">>), GoodTitle, Undef),
     CreateBody(Arr(<<Str(Bob)>>), Str(PrivateMode), Str(<<"a", "b">>), Undef),
     CreateBody(Arr(<<Str(Nobody)>>), Str(PrivateMode), Num(7), Undef),
     CreateBody(Arr(<<Str(Nobody)>>), Str(PrivateMode), GoodTitle, Undef)}

\* Every combination of field values of a createChat body.
WideCreateBodies ==
    {CreateBody(inv, m, t, f) :
        inv \in IdArrays({Alice, Bob, Nobody})
                  \cup {Undef, Str(<<"b">>), Arr(<<Num(7)>>), Arr(<<Str(Bob), Num(7)>>)},
        m \in {Undef, Num(7), Str(<<"f", "o", "o">>), Str(PublicMode), Str(PrivateMode)},
        t \in {Undef, Num(7), Str(<<>>), Str(<<" ", " ">>), Str(<<"a", "b">>),
               Str(<<" ", "a", "b", "c", "d", " ">>), GoodTitle,
               Str(<<" ", "h", "e", "l", "l", "o", " ">>)},
        f \in {Undef, Bool(FALSE), Bool(TRUE)}}

\* A SID no channel has.
UnknownSid == <<"C", "H", "0">>

\* Bodies of inviteToChat that pass the checks of the validation that are
\* about the shape of the body: the channel is one of the provider's (a
\* client learns a SID from the provider or from an answer), or a SID no
\* channel has.
ShapedInviteBodies(arrays) ==
    {InviteBody(t, Str(c)) : t \in arrays, c \in DOMAIN channels \cup {UnknownSid}}

\* One body of inviteToChat for each check of the validation.
BadInviteBodies ==
    {InviteBody(Undef, Str(SidOf(1))),
     InviteBody(Arr(<<Str(Bob)>>), Undef),
     InviteBody(Arr(<<Str(Bob)>>), Num(7)),
     InviteBody(Str(<<"b">>), Str(SidOf(1))),
     InviteBody(Arr(<<Num(7)>>), Str(SidOf(1))),
     InviteBody(Arr(<<Str(Nobody)>>), Str(SidOf(1)))}

(***************************************************************************)
(* Specifications.                                                         *)
(***************************************************************************)
\* The steps of the handlers after the intro. oks: the outcomes of the
\* provider's and the store's mutations, TRUE for a call that returns and
\* FALSE for one that throws.
ExistingPathSteps(r, oks) ==
    \/ listMembers(r)
    \/ listInvites(r)
    \/ \E ok \in oks, drop \in BOOLEAN : addMemberExisting(r, ok, drop)

\* Line 560 is reached when the channel found lacks an invitee of the
\* request: after a request that threw and left its channel behind, or
\* while the request that created the channel is still running.
ExistingInviteSteps(r, oks) ==
    \E i \in 1 .. MaxInvite, ok \in oks : inviteExisting(r, i, ok)

NewPathSteps(r, oks) ==
    \/ listChannels(r)
    \/ \E ok \in oks : createChannel(r, ok)
    \/ usersList(r)
    \/ \E ok \in oks, done \in SUBSET Profiles : usersCreate(r, ok, done)
    \/ \E ok \in oks : addMemberNew(r, ok)
    \/ \E i \in 1 .. MaxInvite, ok \in oks : inviteNew(r, i, ok)

CatchSteps(r) ==
    \E ok \in BOOLEAN : removeChannel(r, ok)

MirrorSteps(r, oks) ==
    \/ \E ok \in oks : getOrCreateTextChat(r, ok)
    \/ textChatSave(r)
    \/ aclMembers(r)
    \/ aclInvites(r)
    \/ \E ok \in oks : aclSave(r, ok)

InviteSteps(r, oks) ==
    \/ fetchChannel(r)
    \/ inviteListMembers(r)
    \/ inviteListInvites(r)
    \/ \E i \in 1 .. MaxInvite, ok \in oks : inviteTargets(r, i, ok)

\* Requests take the slots in order.
Startable(r) ==
    req[r].pc = "idle" /\ \A q \in Slots : q < r => req[q].pc # "idle"

\* The request of slot r starts when the ones before it have been answered.
StartableAfter(r) ==
    req[r].pc = "idle" /\ \A q \in Slots : q < r => req[q].pc = "done"

\* The request bodies of Spec: each names one of Alice and Bob.
ConcCreateBodies == ShapedCreateBodies(OneIdArrays({Alice, Bob}), {Undef})

ConcInviteArrays == OneIdArrays({Alice, Bob})

\* Spec: requests of Alice and Bob that run concurrently, against a provider
\* and a store whose mutations may throw.
Next ==
    \E r \in Slots :
        \/ /\ Startable(r)
           /\ \E self \in {Alice, Bob}, body \in ConcCreateBodies :
                  handleCreateChat(r, self, body)
        \/ /\ Startable(r)
           /\ \E self \in {Alice, Bob}, body \in ShapedInviteBodies(ConcInviteArrays) :
                  handleInviteToChat(r, self, body)
        \/ ExistingPathSteps(r, BOOLEAN)
        \/ ExistingInviteSteps(r, BOOLEAN)
        \/ NewPathSteps(r, BOOLEAN)
        \/ CatchSteps(r)
        \/ MirrorSteps(r, BOOLEAN)
        \/ InviteSteps(r, BOOLEAN)

Spec == Init /\ [][Next]_vars

\* The steps of request r after its handler was entered: each is the
\* continuation of one awaited call.
Continue(r) ==
    \/ ExistingPathSteps(r, BOOLEAN)
    \/ ExistingInviteSteps(r, BOOLEAN)
    \/ NewPathSteps(r, BOOLEAN)
    \/ CatchSteps(r)
    \/ MirrorSteps(r, BOOLEAN)
    \/ InviteSteps(r, BOOLEAN)

\* Spec with the scheduling of the event loop: every awaited call settles,
\* callWithRetry after its bounded attempts, and the continuation of a
\* settled call is run.
FairSpec == Spec /\ \A r \in Slots : WF_vars(Continue(r))

\* The request bodies of SeqSpec: every invite list over the participants
\* (forVideoRoom only where it matters, with one id), and one body for each
\* check of the validation.
SeqCreateBodies ==
    ShapedCreateBodies(IdArrays(Profiles), {Undef})
        \cup ShapedCreateBodies(OneIdArrays(Profiles), {Bool(TRUE)})
        \cup BadCreateBodies

SeqInviteArrays == IdArrays(Profiles)

\* SeqSpec: requests of every participant that run one after the other,
\* against a provider and a store whose calls return.
SeqNext ==
    \E r \in Slots :
        \/ /\ StartableAfter(r)
           /\ \E self \in Profiles, body \in SeqCreateBodies :
                  handleCreateChat(r, self, body)
        \/ /\ StartableAfter(r)
           /\ \E self \in Profiles,
                 body \in ShapedInviteBodies(SeqInviteArrays) \cup BadInviteBodies :
                  handleInviteToChat(r, self, body)
        \/ ExistingPathSteps(r, {TRUE})
        \/ NewPathSteps(r, {TRUE})
        \/ MirrorSteps(r, {TRUE})
        \/ InviteSteps(r, {TRUE})

SeqSpec == Init /\ [][SeqNext]_vars

\* ValSpec: one createChat request, over every combination of field values.
ValNext ==
    \/ /\ Startable(1)
       /\ \E self \in {Alice, Bob}, body \in WideCreateBodies :
              handleCreateChat(1, self, body)
    \/ NewPathSteps(1, BOOLEAN)
    \/ CatchSteps(1)
    \/ MirrorSteps(1, BOOLEAN)

ValSpec == Init /\ [][ValNext]_vars

(***************************************************************************)
(* handleAddReaction (lines 770-828) and handleRemoveReaction (lines       *)
(* 842-902).                                                               *)
(***************************************************************************)
\* What JSON.parse(message.attributes) yields: null, or an object with or
\* without the key reactions (has), whose value maps a reaction to the
\* sequence of the profile ids that reacted. JSON.stringify and JSON.parse
\* take such an object to text and back without changing it.
Null == [t |-> "null", has |-> FALSE, reactions |-> <<>>]
Obj(has, reactions) == [t |-> "object", has |-> has, reactions |-> reactions]

\* A property that every object inherits from Object.prototype.
Constructor == <<"c", "o", "n", "s", "t", "r", "u", "c", "t", "o", "r">>

ObjectPrototypeKeys == {Constructor}

\* attributes?.reactions ?? {}
reactionsOf(attributes) ==
    IF attributes.t = "object" /\ attributes.has THEN attributes.reactions ELSE <<>>

\* reactions[reaction] ?? []: an own key gives its array, an inherited one
\* gives the inherited value, which is no array.
reactionUsersOf(reactions, reaction) ==
    IF reaction \in DOMAIN reactions THEN Arr(reactions[reaction])
    ELSE IF reaction \in ObjectPrototypeKeys THEN [t |-> "function", v |-> <<>>]
    ELSE Arr(<<>>)

\* reactionUsers.includes is not a function: a TypeError
includesThrows(reactionUsers) == reactionUsers.t # "array"

\* reactionUsers.includes(userProfile.id)
includes(a, id) == \E i \in 1 .. Len(a) : a[i] = id

\* reactionUsers.filter(x => x !== userProfile.id)
RECURSIVE filterNot(_, _)
filterNot(a, id) ==
    IF a = <<>> THEN <<>>
    ELSE IF Head(a) = id THEN filterNot(Tail(a), id)
    ELSE <<Head(a)>> \o filterNot(Tail(a), id)

\* reactions[reaction] = value
setKey(reactions, reaction, value) ==
    [k \in DOMAIN reactions \cup {reaction} |->
        IF k = reaction THEN value ELSE reactions[k]]

\* delete reactions[reaction]
deleteKey(reactions, reaction) ==
    [k \in DOMAIN reactions \ {reaction} |-> reactions[k]]

ReactionBody(channel, message, reaction) ==
    [channel |-> channel, message |-> message, reaction |-> reaction]

\* Lines 777-796 and 849-868: the checks of the three body fields.
ReactionValidate(body) ==
    IF Falsy(body.channel) \/ body.channel.t # "string"
        THEN Resp(400, "Invalid or missing channel sid", "send")
    ELSE IF Falsy(body.message) \/ body.message.t # "string"
        THEN Resp(400, "Invalid or missing message sid", "send")
    ELSE IF Falsy(body.reaction) \/ body.reaction.t # "string"
        THEN Resp(400, "Invalid or missing reaction", "send")
    ELSE NoResp

\* res.send(JSON.stringify({ ok: true }))
OkResp == Resp(200, "ok", "send")

\* The handler has returned: its locals are gone, its response stays.
ReactFinished(rq, resp) ==
    [rq EXCEPT !.pc = "done", !.resp = resp, !.attributes = Undef]

\* The key of the message that the request names.
MessageOf(rq) == <<rq.body.channel.v, rq.body.message.v>>

\* Lines 770-796: request intro and validation.
handleAddReaction(r, self, body) ==
    /\ reactReq[r].pc = "idle"
    /\ LET v == ReactionValidate(body)
           rq == [IdleReact EXCEPT !.kind = "add", !.self = self, !.body = body]
       IN  reactReq' = [reactReq EXCEPT ![r] =
               IF v # NoResp THEN ReactFinished(rq, v)
               ELSE [rq EXCEPT !.pc = "membersList"]]
    /\ UNCHANGED <<messages, chatState, provider>>

\* Lines 842-868: request intro and validation.
handleRemoveReaction(r, self, body) ==
    /\ reactReq[r].pc = "idle"
    /\ LET v == ReactionValidate(body)
           rq == [IdleReact EXCEPT !.kind = "remove", !.self = self, !.body = body]
       IN  reactReq' = [reactReq EXCEPT ![r] =
               IF v # NoResp THEN ReactFinished(rq, v)
               ELSE [rq EXCEPT !.pc = "membersList"]]
    /\ UNCHANGED <<messages, chatState, provider>>

\* channel.members.list() without the membership check that follows it.
membersList_noMemberCheck(r) ==
    /\ reactReq[r].pc = "membersList"
    /\ reactReq' = [reactReq EXCEPT ![r] =
           IF reactReq[r].body.channel.v \notin DOMAIN channels
           THEN ReactFinished(@, Unhandled)
           ELSE [@ EXCEPT !.pc = "fetch"]]
    /\ UNCHANGED <<messages, chatState, provider>>

\* Lines 801-807 and 873-879: channel.members.list(), which rejects for a
\* channel the provider does not know, and the 403 for a requester who is
\* not a member.
membersList(r) ==
    /\ reactReq[r].pc = "membersList"
    /\ LET c == reactReq[r].body.channel.v
       IN  reactReq' = [reactReq EXCEPT ![r] =
               IF c \notin DOMAIN channels THEN ReactFinished(@, Unhandled)
               ELSE IF reactReq[r].self \notin Identities(members[c])
                   THEN ReactFinished(@, Resp(403, "Invalid channel", "send"))
               ELSE [@ EXCEPT !.pc = "fetch"]]
    /\ UNCHANGED <<messages, chatState, provider>>

\* The attributes that handleAddReaction writes (lines 812-815).
addedAttributes(attributes, reaction, id) ==
    LET reactions == reactionsOf(attributes)
        reactionUsers == reactionUsersOf(reactions, reaction).v
    IN  Obj(TRUE, setKey(reactions, reaction, Append(reactionUsers, id)))

\* addReactionFetch that pushes the id without looking for it.
addReactionFetch_alwaysPush(r) ==
    /\ reactReq[r].pc = "fetch"
    /\ reactReq[r].kind = "add"
    /\ LET rq == reactReq[r]
           reaction == rq.body.reaction.v
       IN  reactReq' = [reactReq EXCEPT ![r] =
               IF MessageOf(rq) \notin DOMAIN messages
                   THEN ReactFinished(@, Unhandled)
               ELSE IF includesThrows(reactionUsersOf(
                           reactionsOf(messages[MessageOf(rq)]), reaction))
                   THEN ReactFinished(@, Unhandled)
               ELSE [@ EXCEPT !.pc = "update",
                              !.attributes = addedAttributes(
                                  messages[MessageOf(rq)], reaction, rq.self)]]
    /\ UNCHANGED <<messages, chatState, provider>>

\* Lines 808-815: messages(messageSid).fetch(), which rejects for a message
\* the provider does not know; the requester is pushed when the reaction's
\* list lacks it, and the response follows at once when it does not.
addReactionFetch(r) ==
    /\ reactReq[r].pc = "fetch"
    /\ reactReq[r].kind = "add"
    /\ LET rq == reactReq[r]
           reaction == rq.body.reaction.v
       IN  reactReq' = [reactReq EXCEPT ![r] =
               IF MessageOf(rq) \notin DOMAIN messages
                   THEN ReactFinished(@, Unhandled)
               ELSE LET attributes == messages[MessageOf(rq)]
                        reactionUsers ==
                            reactionUsersOf(reactionsOf(attributes), reaction)
                    IN  IF includesThrows(reactionUsers)
                            THEN ReactFinished(@, Unhandled)
                        ELSE IF ~includes(reactionUsers.v, rq.self)
                            THEN [@ EXCEPT !.pc = "update",
                                           !.attributes = addedAttributes(
                                               attributes, reaction, rq.self)]
                        ELSE ReactFinished(@, OkResp)]
    /\ UNCHANGED <<messages, chatState, provider>>

\* removedAttributes that keeps the key of a list it emptied.
removedAttributes_keepsKey(attributes, reaction, id) ==
    LET reactions == reactionsOf(attributes)
        reactionUsers == reactionUsersOf(reactions, reaction).v
    IN  Obj(TRUE, setKey(reactions, reaction, filterNot(reactionUsers, id)))

\* The attributes that handleRemoveReaction writes (lines 885-889).
removedAttributes(attributes, reaction, id) ==
    LET reactions == reactionsOf(attributes)
        reactionUsers == reactionUsersOf(reactions, reaction).v
        filtered == filterNot(reactionUsers, id)
    IN  Obj(TRUE, IF Len(filtered) = 0
                  THEN deleteKey(reactions, reaction)
                  ELSE setKey(reactions, reaction, filtered))

\* Lines 880-889: as for addReaction, with the requester filtered out of the
\* list that holds it.
removeReactionFetch(r) ==
    /\ reactReq[r].pc = "fetch"
    /\ reactReq[r].kind = "remove"
    /\ LET rq == reactReq[r]
           reaction == rq.body.reaction.v
       IN  reactReq' = [reactReq EXCEPT ![r] =
               IF MessageOf(rq) \notin DOMAIN messages
                   THEN ReactFinished(@, Unhandled)
               ELSE LET attributes == messages[MessageOf(rq)]
                        reactionUsers ==
                            reactionUsersOf(reactionsOf(attributes), reaction)
                    IN  IF includesThrows(reactionUsers)
                            THEN ReactFinished(@, Unhandled)
                        ELSE IF includes(reactionUsers.v, rq.self)
                            THEN [@ EXCEPT !.pc = "update",
                                           !.attributes = removedAttributes(
                                               attributes, reaction, rq.self)]
                        ELSE ReactFinished(@, OkResp)]
    /\ UNCHANGED <<messages, chatState, provider>>

\* Lines 816-824 and 890-898: message.update with the attributes computed
\* from the fetched ones, then the ok response. ok: the update returns;
\* ~ok: it throws and the error goes to next(err).
messageUpdate(r, ok) ==
    /\ reactReq[r].pc = "update"
    /\ ok => MessageOf(reactReq[r]) \in DOMAIN messages
    /\ IF ok
       THEN /\ messages' = [messages EXCEPT ![MessageOf(reactReq[r])] =
                               reactReq[r].attributes]
            /\ reactReq' = [reactReq EXCEPT ![r] =
                   ReactFinished([@ EXCEPT !.updates = @ + 1], OkResp)]
       ELSE /\ reactReq' = [reactReq EXCEPT ![r] = ReactFinished(@, Unhandled)]
            /\ UNCHANGED messages
    /\ UNCHANGED <<chatState, provider>>

\* The message of the reaction specifications, and a SID of no message.
MessageSid == <<"I", "M", "1">>
UnknownMessage == <<"I", "M", "0">>

\* The reactions that requests name.
Thumb == <<"+">>
Heart == <<"<", "3">>

\* The attributes a message has before any reaction (null, {} and
\* {reactions: {}}) and after reactions of Bob, or of Bob and Alice.
StartAttributes ==
    {Null, Obj(FALSE, <<>>), Obj(TRUE, <<>>),
     Obj(TRUE, Thumb :> <<Bob>>),
     Obj(TRUE, Thumb :> <<Bob, Alice>>)}

\* The state the reaction specifications start in: the group channel that
\* Alice created and Bob joined, a manager outside it, and one message.
ReactInit ==
    /\ req = [r \in Slots |-> IdleReq]
    /\ channels = (SidOf(1) :>
           [uniqueName |-> uuidv4(1), friendlyName |-> GoodTitle.v,
            createdBy |-> Alice, type |-> PrivateMode,
            attributes |-> [isDM |-> FALSE]])
    /\ members = [c \in Sids |->
           IF c = SidOf(1)
           THEN SetToBag({[identity |-> Alice, roleSid |-> ChannelAdmin],
                          [identity |-> Bob, roleSid |-> ChannelUser]})
           ELSE EmptyBag]
    /\ invites = [c \in Sids |-> EmptyBag]
    /\ users = {Alice, Bob}
    /\ textChats = <<>>
    /\ inviteCalls = EmptyBag
    /\ \E a \in StartAttributes : messages = (<<SidOf(1), MessageSid>> :> a)
    /\ reactReq = [r \in ReactSlots |-> IdleReact]

\* Bodies that pass the validation, and one body for each of its checks.
ShapedReactionBodies ==
    {ReactionBody(Str(SidOf(1)), Str(MessageSid), Str(k)) :
        k \in {Thumb, Heart, Constructor}}
        \cup {ReactionBody(Str(UnknownSid), Str(MessageSid), Str(Thumb)),
              ReactionBody(Str(SidOf(1)), Str(UnknownMessage), Str(Thumb))}

BadReactionBodies ==
    {ReactionBody(Undef, Str(MessageSid), Str(Thumb)),
     ReactionBody(Num(7), Str(MessageSid), Str(Thumb)),
     ReactionBody(Str(SidOf(1)), Str(<<>>), Str(Thumb)),
     ReactionBody(Str(SidOf(1)), Str(MessageSid), Undef),
     ReactionBody(Str(SidOf(1)), Str(MessageSid), Arr(<<>>))}

\* The requesters and bodies of the reaction specifications: the validation
\* does not look at the requester.
ReactionInputs ==
    (Profiles \X ShapedReactionBodies) \cup ({Alice} \X BadReactionBodies)

ReactionSteps(r, oks) ==
    \/ membersList(r)
    \/ addReactionFetch(r)
    \/ removeReactionFetch(r)
    \/ \E ok \in oks : messageUpdate(r, ok)

\* The reaction request of slot r starts when the ones before it have been
\* answered.
ReactStartableAfter(r) ==
    reactReq[r].pc = "idle" /\ \A q \in ReactSlots : q < r => reactReq[q].pc = "done"

\* ReactSeqSpec: reaction requests of every participant that run one after
\* the other, against a provider whose update may throw.
ReactSeqNext ==
    \E r \in ReactSlots :
        \/ /\ ReactStartableAfter(r)
           /\ \E in \in ReactionInputs : handleAddReaction(r, in[1], in[2])
        \/ /\ ReactStartableAfter(r)
           /\ \E in \in ReactionInputs : handleRemoveReaction(r, in[1], in[2])
        \/ ReactionSteps(r, BOOLEAN)

ReactSeqSpec == ReactInit /\ [][ReactSeqNext]_vars

\* The reaction request of slot r may start while the ones before it are
\* between their fetch and their update.
ReactStartable(r) ==
    reactReq[r].pc = "idle" /\ \A q \in ReactSlots : q < r => reactReq[q].pc # "idle"

\* ReactSpec: reaction requests in flight together, every await a point at
\* which the other request may run.
ReactNext ==
    \E r \in ReactSlots :
        \/ /\ ReactStartable(r)
           /\ \E in \in ReactionInputs : handleAddReaction(r, in[1], in[2])
        \/ /\ ReactStartable(r)
           /\ \E in \in ReactionInputs : handleRemoveReaction(r, in[1], in[2])
        \/ ReactionSteps(r, BOOLEAN)

ReactSpec == ReactInit /\ [][ReactNext]_vars

(***************************************************************************)
(* Requests against channels that exist already.                           *)
(***************************************************************************)
\* The state that two answered requests of Alice leave behind: createChat
\* with Bob in private mode (the DM, request 1) and createChat of a private
\* group for a video room (request 2) with the identities invited.
ReuseStart(invited) ==
    /\ req = [r \in Slots |-> IdleReq]
    /\ channels =
           (SidOf(1) :>
               [uniqueName |-> uniqueNameOf(Alice, <<Bob>>, TRUE, uuidv4(1)),
                friendlyName |-> uniqueNameOf(Alice, <<Bob>>, TRUE, uuidv4(1)),
                createdBy |-> SystemIdentity,
                type |-> PrivateMode,
                attributes |-> [isDM |-> TRUE]])
           @@ (SidOf(2) :>
               [uniqueName |-> uniqueNameOf(Alice, <<Bob>>, FALSE, uuidv4(2)),
                friendlyName |-> GoodTitle.v,
                createdBy |-> Alice,
                type |-> PrivateMode,
                attributes |-> [isDM |-> FALSE]])
    /\ members = [c \in Sids |->
           IF c = SidOf(1)
               THEN SetToBag({[identity |-> Alice, roleSid |-> memberRole(TRUE, Alice)]})
           ELSE IF c = SidOf(2)
               THEN SetToBag({[identity |-> Alice, roleSid |-> memberRole(FALSE, Alice)]})
           ELSE EmptyBag]
    /\ invites = [c \in Sids |->
           IF c = SidOf(1)
               THEN SetToBag({[identity |-> Bob, roleSid |-> inviteRole(Bob)]})
           ELSE IF c = SidOf(2)
               THEN SetToBag({[identity |-> id, roleSid |-> inviteRole(id)] :
                                 id \in invited})
           ELSE EmptyBag]
    /\ users = {Alice, Bob}
    /\ textChats =
           (ObjIdOf(1) :>
               [autoWatch |-> TRUE, twilioID |-> SidOf(1), conference |-> Conference,
                mirrored |-> FALSE,
                name |-> uniqueNameOf(Alice, <<Bob>>, TRUE, uuidv4(1)),
                acl |-> newACL(TRUE, {Alice, Bob})])
           @@ (ObjIdOf(2) :>
               [autoWatch |-> FALSE, twilioID |-> SidOf(2), conference |-> Conference,
                mirrored |-> FALSE, name |-> GoodTitle.v,
                acl |-> newACL(TRUE, {Alice} \cup invited)])
    /\ inviteCalls = SetToBag({<<SidOf(1), Bob>>} \cup {<<SidOf(2), id>> : id \in invited})
    /\ messages = <<>>
    /\ reactReq = [r \in ReactSlots |-> IdleReact]

\* The state ReuseSpec starts in: Bob is the one invited into the group.
ReuseInit == ReuseStart({Bob})

\* The state LapsedSpec starts in: the group's invitations hold, next to
\* Bob's, the one of a participant whose profile the conference has lost
\* since.
LapsedInit == ReuseStart({Bob, Nobody})

\* createChat of Alice or Bob for the DM of the two.
ReuseCreateInputs ==
    {<<Alice, CreateBody(Arr(<<Str(Bob)>>), Str(PrivateMode), GoodTitle, Undef)>>,
     <<Bob, CreateBody(Arr(<<Str(Alice)>>), Str(PrivateMode), GoodTitle, Undef)>>}

\* inviteToChat of Alice or Bob, for every list of targets.
ReuseInviteBodies ==
    {InviteBody(t, Str(c)) : t \in IdArrays({Alice, Bob, Mgr}), c \in {SidOf(1), SidOf(2)}}

\* ReuseSpec: requests that run one after the other against the DM and the
\* group that exist, and a provider and a store whose calls return.
ReuseNext ==
    \E r \in Slots :
        \/ /\ StartableAfter(r)
           /\ \E in \in ReuseCreateInputs : handleCreateChat(r, in[1], in[2])
        \/ /\ StartableAfter(r)
           /\ \E self \in {Alice, Bob}, body \in ReuseInviteBodies :
                  handleInviteToChat(r, self, body)
        \/ listChannels(r)
        \/ ExistingPathSteps(r, {TRUE})
        \/ getOrCreateTextChat(r, TRUE)
        \/ aclMembers(r)
        \/ aclInvites(r)
        \/ aclSave(r, TRUE)
        \/ InviteSteps(r, {TRUE})

ReuseSpec == ReuseInit /\ [][ReuseNext]_vars

\* LapsedSpec: the requests of ReuseSpec, with an invitee without profile.
LapsedSpec == LapsedInit /\ [][ReuseNext]_vars

(***************************************************************************)
(* Properties.                                                             *)
(***************************************************************************)
Done(r) == req[r].pc = "done"

Answered(r, status) == Done(r) /\ req[r].resp.status = status

Issued(r, call) == BagIn(call, req[r].calls)

\* The body of r is a well-formed createChat body whose invite list is
\* exactly <<id>>, in private mode and without forVideoRoom.
InvitesOnly(r, id) ==
    /\ req[r].kind = "create"
    /\ req[r].body.invite.t = "array"
    /\ Len(req[r].body.invite.v) = 1
    /\ req[r].body.invite.v[1].t = "string"
    /\ req[r].body.invite.v[1].v = id
    /\ req[r].body.mode = Str(PrivateMode)
    /\ req[r].body.title = GoodTitle
    /\ req[r].body.forVideoRoom = Undef

ChannelsNamed(uniqueName) ==
    {c \in DOMAIN channels : channels[c].uniqueName = uniqueName}

\* C1: for distinct identities A and B, createChat by A inviting only B and
\* createChat by B inviting only A (private, no forVideoRoom) compute the same
\* unique key, and when the second runs after the first was answered, it
\* returns the channel the first returned and creates none.
C1_SymmetricDM ==
    \A r1 \in Slots, r2 \in Slots :
        /\ r1 < r2
        /\ req[r1].self # req[r2].self
        /\ InvitesOnly(r1, req[r2].self)
        /\ InvitesOnly(r2, req[r1].self)
        => /\ req[r1].uniqueName = req[r2].uniqueName
           /\ req[r1].uniqueName # <<>>
           /\ Answered(r1, 200) /\ Done(r2)
              => /\ Answered(r2, 200)
                 /\ req[r2].newChannel = req[r1].newChannel
                 /\ req[r2].newChannel \in DOMAIN channels
                 /\ ~Issued(r2, "channels.create")

\* Witness of C1: Bob's request towards Alice was answered with the channel
\* that Alice's earlier request towards Bob created.
C1_Witness ==
    \E r1 \in Slots, r2 \in Slots :
        /\ r1 < r2
        /\ req[r1].self = Alice /\ InvitesOnly(r1, Bob)
        /\ req[r2].self = Bob /\ InvitesOnly(r2, Alice)
        /\ Answered(r1, 200) /\ Issued(r1, "channels.create")
        /\ Answered(r2, 200)
        /\ req[r2].newChannel = req[r1].newChannel

\* C2: createChat twice in sequence with the same requester, the same single
\* invitee and mode private: the second returns the SID the first returned
\* without calling channel creation, one channel carries the key, and the
\* first call created it unless an earlier request had.
C2_SecondCallReuses ==
    \A r1 \in Slots, r2 \in Slots :
        /\ r1 < r2
        /\ req[r1].self = req[r2].self
        /\ \E id \in Profiles \ {req[r1].self} :
               InvitesOnly(r1, id) /\ InvitesOnly(r2, id)
        /\ Answered(r1, 200) /\ Done(r2)
        => /\ Answered(r2, 200)
           /\ req[r2].newChannel = req[r1].newChannel
           /\ ~Issued(r2, "channels.create")
           /\ Cardinality(ChannelsNamed(req[r1].uniqueName)) = 1
           /\ (\A r0 \in Slots : r0 < r1 => req[r0].uniqueName # req[r1].uniqueName)
              => Issued(r1, "channels.create")

\* Witness of C2: Alice asked twice for a chat with Bob, and both requests
\* were answered.
C2_Witness ==
    \E r1 \in Slots, r2 \in Slots :
        /\ r1 < r2
        /\ req[r1].self = Alice /\ InvitesOnly(r1, Bob)
        /\ req[r2].self = Alice /\ InvitesOnly(r2, Bob)
        /\ Answered(r1, 200) /\ Answered(r2, 200)
        /\ Cardinality(DOMAIN channels) = 1

\* The request created its channel, and a call of the try block of lines
\* 576-596 threw afterwards.
PostCreationFailure(r) ==
    /\ req[r].kind = "create"
    /\ Issued(r, "channels.create")
    /\ "channels.create" \notin req[r].thrown
    /\ req[r].thrown \cap {"users.create", "members.create", "invites.create"} # {}

\* C3, as stated: when ensuring the provider users, the requester's membership
\* or an invitation fails after the channel was created, the finished request
\* has left no channel behind and was answered with a server error.
C3_ChannelGoneAfterFailure ==
    \A r \in Slots :
        Done(r) /\ PostCreationFailure(r)
        => /\ SidOf(r) \notin DOMAIN channels
           /\ req[r].resp.status >= 500

\* C3, amended: after such a failure the request goes to the removal of the
\* channel and to nothing else; it is answered with status 500; the channel
\* is gone when the removal returned (the answer is the handler's own
\* "Failed to add or invite members."), and is still there when the removal
\* threw as well (the answer is that of the unhandled-error path).
C3_CompensationAttempted ==
    \A r \in Slots :
        PostCreationFailure(r)
        => /\ ~Done(r) => req[r].pc = "removeChannel" /\ SidOf(r) \in DOMAIN channels
           /\ Done(r)
              => /\ Issued(r, "channel.remove")
                 /\ req[r].resp.status = 500
                 /\ IF "channel.remove" \in req[r].thrown
                    THEN /\ req[r].resp = Unhandled
                         /\ SidOf(r) \in DOMAIN channels
                    ELSE /\ req[r].resp =
                               Resp(500, "Failed to add or invite members.", "send")
                         /\ SidOf(r) \notin DOMAIN channels

\* Witness of C3: an invitation of a new channel threw, the removal of the
\* channel returned, and the request was answered with status 500.
C3_Witness ==
    \E r \in Slots :
        /\ Done(r) /\ PostCreationFailure(r)
        /\ "invites.create" \in req[r].thrown
        /\ "channel.remove" \notin req[r].thrown
        /\ SidOf(r) \notin DOMAIN channels
        /\ req[r].resp.status = 500

\* The body of r is a createChat body that passes the checks of the shape of
\* its fields: an array of strings, a mode, a title of 5 characters or more.
ShapedBody(r) ==
    /\ req[r].kind = "create"
    /\ req[r].body.invite.t = "array"
    /\ AllStrings(req[r].body.invite.v)
    /\ req[r].body.mode \in {Str(PublicMode), Str(PrivateMode)}
    /\ req[r].body.title.t = "string"
    /\ Len(Trim(req[r].body.title.v)) >= 5

\* C4, as stated: createChat whose invite list is empty once the requester is
\* removed from it creates no channel, and is answered with status 400 and a
\* status message.
C4_EmptyInviteRejected ==
    \A r \in Slots :
        /\ ShapedBody(r)
        /\ FilterNotSelf(req[r].body.invite.v, req[r].self) = <<>>
        => /\ ~Issued(r, "channels.create")
           /\ Done(r) => req[r].resp.status = 400 /\ req[r].resp.msg # ""

\* C5, as stated: createChat with a mode other than "public" or "private", or
\* with a title whose trimmed length is under 5, is answered with status 400,
\* whatever the other fields are.
C5_BadModeOrTitleRejected ==
    \A r \in Slots :
        /\ req[r].kind = "create"
        /\ Done(r)
        /\ \/ req[r].body.mode \notin {Str(PublicMode), Str(PrivateMode)}
           \/ req[r].body.title.t = "string" /\ Len(Trim(req[r].body.title.v)) < 5
        => req[r].resp.status = 400

\* C6: a request of createChat or inviteToChat that is answered with status
\* 400 has issued no mutating call of the provider or of the mirror store,
\* and the provider and the mirror store change only in steps in which some
\* request issues such a call: the rejected request leaves both as they were.
C6_RejectionHasNoEffect ==
    /\ [](\A r \in Slots : Answered(r, 400) => req[r].calls = EmptyBag)
    /\ [][<<provider, textChats>>' # <<provider, textChats>>
            => \E r \in Slots : req'[r].calls # req[r].calls]_vars

\* Witness of C6: a request was answered with status 400 after an earlier
\* request had created a channel and its mirror record, which are still there.
C6_Witness ==
    \E r1 \in Slots, r2 \in Slots :
        /\ r1 < r2
        /\ Answered(r1, 200) /\ Issued(r1, "channels.create")
        /\ Answered(r2, 400)
        /\ req[r1].newChannel \in DOMAIN channels
        /\ textChats # <<>>

\* The positions of handleCreateChat on the existing-channel path.
ExistingPathPcs ==
    {"listChannels", "listMembers", "listInvites", "addMemberExisting",
     "inviteExisting"}

\* C7: createChat in public mode with two or more invitees, invoked twice with
\* the same requester and the same invite list, creates two channels with
\* distinct SIDs and distinct unique names; a createChat request that is not a
\* DM never takes the existing-channel path.
C7_GroupsNotDeduplicated ==
    /\ \A r1 \in Slots, r2 \in Slots :
           /\ r1 < r2
           /\ ShapedBody(r1) /\ ShapedBody(r2)
           /\ req[r1].self = req[r2].self
           /\ req[r1].body.invite = req[r2].body.invite
           /\ req[r1].body.mode = Str(PublicMode)
           /\ req[r2].body.mode = Str(PublicMode)
           /\ Len(FilterNotSelf(req[r1].body.invite.v, req[r1].self)) >= 2
           /\ Done(r1) /\ Done(r2)
           => /\ Answered(r1, 200) /\ Answered(r2, 200)
              /\ Issued(r1, "channels.create") /\ Issued(r2, "channels.create")
              /\ req[r1].newChannel # req[r2].newChannel
              /\ {req[r1].newChannel, req[r2].newChannel} \subseteq DOMAIN channels
              /\ channels[req[r1].newChannel].uniqueName
                     # channels[req[r2].newChannel].uniqueName
    /\ \A r \in Slots :
           req[r].kind = "create" /\ ~req[r].isDM
           => /\ req[r].pc \notin ExistingPathPcs
              /\ Answered(r, 200) => req[r].newChannel = SidOf(r)

\* Witness of C7: Alice asked twice for a public chat with Bob and the
\* manager, and two channels exist.
C7_Witness ==
    \E r1 \in Slots, r2 \in Slots :
        /\ r1 < r2
        /\ ShapedBody(r1) /\ ShapedBody(r2)
        /\ req[r1].self = Alice /\ req[r2].self = Alice
        /\ req[r1].body.invite = Arr(<<Str(Bob), Str(Mgr)>>)
        /\ req[r2].body.invite = Arr(<<Str(Bob), Str(Mgr)>>)
        /\ req[r1].body.mode = Str(PublicMode)
        /\ req[r2].body.mode = Str(PublicMode)
        /\ Answered(r1, 200) /\ Answered(r2, 200)
        /\ Cardinality(DOMAIN channels) = 2

\* C8, as stated: no identity is at once a member and a pending invitee of a
\* channel.
C8_NeverMemberAndInvitee ==
    \A c \in Sids : Identities(members[c]) \cap Identities(invites[c]) = {}

\* The number of entries of a members or invites list with the identity.
IdentityCount(bag, id) ==
    LET S == {m \in BagToSet(bag) : m.identity = id}
    IN  IF S = {} THEN 0 ELSE BagCardinality([m \in S |-> bag[m]])

\* C9, as stated: a channel holds at most one invitation and at most one
\* membership of an identity, and no two invitation creations are issued for
\* the same channel and identity.
C9_OneInvitationPerPair ==
    /\ \A c \in Sids :
           /\ \A id \in Identities(invites[c]) : IdentityCount(invites[c], id) <= 1
           /\ \A id \in Identities(members[c]) : IdentityCount(members[c], id) <= 1
    /\ \A e \in BagToSet(inviteCalls) : CopiesIn(e, inviteCalls) <= 1

\* C10, as stated: the mirror store holds at most one TextChat of a
\* conference and a channel SID.
C10_OneMirrorRecord ==
    \A o1 \in DOMAIN textChats, o2 \in DOMAIN textChats :
        /\ textChats[o1].conference = textChats[o2].conference
        /\ textChats[o1].twilioID = textChats[o2].twilioID
        => o1 = o2

\* No request is between its start and its answer.
Quiescent == \A r \in Slots : req[r].pc \in {"idle", "done"}

\* The accounts of the channel's current members and invitees whose identity
\* resolves to a profile.
ResolvedAccounts(c) ==
    {userOf(id) : id \in {x \in Identities(members[c]) \cup Identities(invites[c]) :
                             ~Falsy(getUserProfileByID(x))}}

\* The mirror records of the channels of the type given whose access list was
\* rebuilt at least once.
RebuiltRecords(type) ==
    {o \in DOMAIN textChats :
        /\ textChats[o].acl # EmptyACL
        /\ textChats[o].twilioID \in DOMAIN channels
        /\ channels[textChats[o].twilioID].type = type}

\* C11, as stated: after an access-list rebuild for a private channel (every
\* request answered), the accounts with read access on the mirror record are
\* exactly those of the channel's members and invitees that resolve to a
\* profile, the manager and admin roles have read and write access, and the
\* attendee role has no read access.
C11_PrivateRebuild ==
    Quiescent
    => \A o \in RebuiltRecords(PrivateMode) :
           /\ textChats[o].acl.userRead = ResolvedAccounts(textChats[o].twilioID)
           /\ {"manager", "admin"} \subseteq textChats[o].acl.roleRead
           /\ {"manager", "admin"} \subseteq textChats[o].acl.roleWrite
           /\ "attendee" \notin textChats[o].acl.roleRead

\* C12, as stated: after an access-list rebuild for a public channel (every
\* request answered), the attendee role has read access on the mirror record,
\* the manager and admin roles have read and write access, and no individual
\* account is granted access.
C12_PublicRebuild ==
    Quiescent
    => \A o \in RebuiltRecords(PublicMode) :
           /\ "attendee" \in textChats[o].acl.roleRead
           /\ {"manager", "admin"} \subseteq textChats[o].acl.roleRead
           /\ {"manager", "admin"} \subseteq textChats[o].acl.roleWrite
           /\ textChats[o].acl.userRead = {}

\* The request is an inviteToChat that passed the validation and names a
\* channel the provider holds.
InvitesInto(r, c) ==
    /\ req[r].kind = "invite"
    /\ InviteValidate(req[r].self, req[r].body) = NoResp
    /\ req[r].body.channel.v = c
    /\ c \in DOMAIN channels

DMRefusal == Resp(400, "Cannot invite more users to a DM chat.", "send")

\* C13: inviteToChat on a channel whose attributes have isDM true is answered
\* with status 400 and has issued no call that creates an invitation (or
\* changes anything else), whether the requester is a member of the channel
\* or not.
C13_NoInviteToDM ==
    \A r \in Slots, c \in Sids :
        InvitesInto(r, c) /\ channels[c].attributes.isDM
        => /\ req[r].calls = EmptyBag
           /\ req[r].pc \in {"fetchChannel", "done"}
           /\ Done(r) => req[r].resp = DMRefusal

\* Witness of C13: a requester who is no member of a DM channel asked to
\* invite into it and was answered with status 400.
C13_Witness ==
    \E r \in Slots, c \in Sids :
        /\ InvitesInto(r, c) /\ channels[c].attributes.isDM
        /\ req[r].self \notin Identities(members[c])
        /\ Identities(members[c]) # {}
        /\ Answered(r, 400)

\* The request is an inviteToChat, valid in shape, into a channel that is
\* not a DM and of which the requester is no member.
OutsiderInvites(r, c) ==
    /\ InvitesInto(r, c)
    /\ ~channels[c].attributes.isDM
    /\ req[r].self \notin Identities(members[c])

\* C14: inviteToChat by a requester who is no member of the non-DM channel it
\* names is answered with status 403 ("Access denied."), issues no mutating
\* call, and no step taken while it runs changes the provider's invitations
\* or the mirror records and their access lists.
C14_OutsiderDenied ==
    /\ [](\A r \in Slots, c \in Sids :
             OutsiderInvites(r, c)
             => /\ req[r].calls = EmptyBag
                /\ Done(r) => req[r].resp = Resp(403, "Access denied.", "send"))
    /\ [][\A r \in Slots, c \in Sids :
             OutsiderInvites(r, c) /\ ~Done(r)
             => UNCHANGED <<provider, textChats, inviteCalls>>]_vars

\* Witness of C14: an outsider of a group channel that has a mirror record
\* was answered with status 403.
C14_Witness ==
    \E r \in Slots, c \in Sids :
        /\ OutsiderInvites(r, c)
        /\ Answered(r, 403)
        /\ \E o \in DOMAIN textChats : textChats[o].twilioID = c

\* The step in which the createChat request r is answered with status 200.
AnswersCreated(r) ==
    /\ req[r].kind = "create"
    /\ req[r].pc # "done"
    /\ req'[r].pc = "done"
    /\ req'[r].resp.status = 200

\* C15, as stated: when createChat answers with status 200, the requester is
\* an active member of the channel returned and every invitee of the request
\* is an active member or a pending invitee of that channel.
C15_ParticipantsPlaced ==
    [][\A r \in Slots :
          AnswersCreated(r)
          => /\ req[r].newChannel \in DOMAIN channels'
             /\ req[r].self \in Identities(members'[req[r].newChannel])
             /\ \A i \in 1 .. Len(req[r].toInvite) :
                    req[r].toInvite[i] \in
                        Identities(members'[req[r].newChannel])
                            \cup Identities(invites'[req[r].newChannel])]_vars

Listed(attributes, reaction, id) ==
    LET reactionUsers == reactionUsersOf(reactionsOf(attributes), reaction)
    IN  reactionUsers.t = "array" /\ includes(reactionUsers.v, id)

\* How often the reaction's list in the attributes holds the id.
TimesListed(attributes, reaction, id) ==
    LET reactionUsers == reactionUsersOf(reactionsOf(attributes), reaction)
    IN  IF reactionUsers.t # "array" THEN 0
        ELSE Cardinality({i \in 1 .. Len(reactionUsers.v) : reactionUsers.v[i] = id})

\* The step is one of reaction request r, of the kind given, past validation.
ReactionStep(r, kind) ==
    /\ reactReq'[r] # reactReq[r]
    /\ reactReq'[r].kind = kind
    /\ ReactionValidate(reactReq'[r].body) = NoResp

\* The step is the one in which reaction request r answers ok.
AnswersOk(r) ==
    reactReq[r].pc # "done" /\ reactReq'[r].pc = "done" /\ reactReq'[r].resp = OkResp

\* C17. addReaction is idempotent: no step of an addReaction by U with R
\* changes the attributes of a message whose list of R holds U already, and
\* when an addReaction by U with R answers ok the list of R holds U exactly
\* once.
C17_AddIdempotent ==
    [][\A r \in ReactSlots :
          ReactionStep(r, "add") =>
              LET rq == reactReq'[r]
                  reaction == rq.body.reaction.v
              IN  /\ (/\ MessageOf(rq) \in DOMAIN messages
                      /\ Listed(messages[MessageOf(rq)], reaction, rq.self))
                         => messages' = messages
                  /\ AnswersOk(r) =>
                         /\ MessageOf(rq) \in DOMAIN messages'
                         /\ TimesListed(messages'[MessageOf(rq)], reaction, rq.self) = 1]_vars

\* Alice added a reaction and added it again: both requests were answered ok,
\* the first one updated the message, the second one did not, and the list
\* holds Alice once.
C17_Witness ==
    /\ \A r \in {1, 2} :
           /\ reactReq[r].kind = "add"
           /\ reactReq[r].self = Alice
           /\ reactReq[r].body = ReactionBody(Str(SidOf(1)), Str(MessageSid), Str(Thumb))
           /\ reactReq[r].pc = "done"
           /\ reactReq[r].resp = OkResp
    /\ reactReq[1].updates = 1
    /\ reactReq[2].updates = 0
    /\ TimesListed(messages[<<SidOf(1), MessageSid>>], Thumb, Alice) = 1

\* The reaction's list in the attributes, empty when they have no such key.
UsersListed(attributes, reaction) ==
    IF reaction \in DOMAIN reactionsOf(attributes)
    THEN reactionsOf(attributes)[reaction] ELSE <<>>

NoEmptyList ==
    \A k \in DOMAIN messages :
        \A reaction \in DOMAIN reactionsOf(messages[k]) :
            Len(reactionsOf(messages[k])[reaction]) > 0

\* C18. When a removeReaction by U with R answers ok, the list of R is the
\* one before the answer without U, the key R is gone when that list is
\* empty, and no reaction key of a message ever maps to an empty list.
C18_RemoveDeletesEmptyKey ==
    /\ []NoEmptyList
    /\ [][\A r \in ReactSlots :
             ReactionStep(r, "remove") /\ AnswersOk(r) =>
                 LET rq == reactReq'[r]
                     reaction == rq.body.reaction.v
                     before == UsersListed(messages[MessageOf(rq)], reaction)
                     after == UsersListed(messages'[MessageOf(rq)], reaction)
                 IN  /\ after = filterNot(before, rq.self)
                     /\ ~includes(after, rq.self)
                     /\ after = <<>> =>
                            reaction \notin DOMAIN reactionsOf(messages'[MessageOf(rq)])]_vars

\* Bob and then Alice took their reaction back from the list that held both:
\* each request updated the message, and the key is gone with the last one.
C18_Witness ==
    /\ \A r \in {1, 2} :
           /\ reactReq[r].kind = "remove"
           /\ reactReq[r].body = ReactionBody(Str(SidOf(1)), Str(MessageSid), Str(Thumb))
           /\ reactReq[r].pc = "done"
           /\ reactReq[r].resp = OkResp
           /\ reactReq[r].updates = 1
    /\ reactReq[1].self = Bob
    /\ reactReq[2].self = Alice
    /\ messages[<<SidOf(1), MessageSid>>] = Obj(TRUE, <<>>)

\* Request r is an inviteToChat that passed the validation and names a
\* channel SID that the provider does not know.
InvitesIntoUnknown(r) ==
    /\ req[r].kind = "invite"
    /\ InviteValidate(req[r].self, req[r].body) = NoResp
    /\ req[r].body.channel.v = UnknownSid

\* C19, as stated: an inviteToChat that names a channel SID unknown to the
\* provider is answered with a 4xx status, and it creates no invitation and
\* no Mirror Record.
C19_UnknownChannelClientError ==
    \A r \in Slots :
        InvitesIntoUnknown(r) =>
            /\ req[r].calls = EmptyBag
            /\ \A o \in DOMAIN textChats : textChats[o].twilioID # UnknownSid
            /\ Done(r) => req[r].resp.status \in 400 .. 499

\* The access list gives the attendee role read access: the record is public.
AttendeesRead(acl) == "attendee" \in acl.roleRead

\* The step is the one in which inviteToChat request r saves the rebuilt
\* access list.
InviteRebuilds(r) ==
    /\ req[r].kind = "invite"
    /\ req[r].pc = "aclSave"
    /\ req'[r].pc = "done"
    /\ req'[r].resp.status = 200

\* C20, as stated: the rebuild that inviteToChat runs keeps the privacy mode
\* that the Mirror Record's access list expressed before it: a record
\* without read access for the attendee role stays without it, and a record
\* with it keeps it.
C20_InviteKeepsPrivacy ==
    [][\A r \in Slots :
          InviteRebuilds(r) =>
              AttendeesRead(textChats'[req[r].textChat].acl)
                  = AttendeesRead(textChats[req[r].textChat].acl)]_vars

\* The identities that request r is to invite.
TargetSet(r) == {req[r].toInvite[i] : i \in 1 .. Len(req[r].toInvite)}

\* Request r2 repeats request r1: the same operation by the same requester
\* with the same set of targets on the same channel, a createChat for a DM or
\* an inviteToChat, both past the validation.
Repeats(r1, r2) ==
    /\ r1 < r2
    /\ req[r1].kind = req[r2].kind
    /\ req[r1].self = req[r2].self
    /\ \/ /\ req[r1].kind = "create"
          /\ CreateChatValidate(req[r1].self, req[r1].body) = NoResp
          /\ CreateChatValidate(req[r2].self, req[r2].body) = NoResp
          /\ req[r1].isDM /\ req[r2].isDM
          /\ req[r1].uniqueName = req[r2].uniqueName
       \/ /\ req[r1].kind = "invite"
          /\ InviteValidate(req[r1].self, req[r1].body) = NoResp
          /\ InviteValidate(req[r2].self, req[r2].body) = NoResp
          /\ req[r1].body.channel = req[r2].body.channel
    /\ TargetSet(r1) = TargetSet(r2)

\* C21. A createChat for a DM or an inviteToChat that repeats, in sequence, a
\* request that was answered 200 never comes to create a membership or an
\* invitation (nor a channel): it issues no such call.
C21_RepeatCreatesNothing ==
    \A r1 \in Slots, r2 \in Slots :
        Repeats(r1, r2) /\ Answered(r1, 200) =>
            /\ req[r2].pc \notin {"createChannel", "addMemberExisting",
                                  "inviteExisting", "inviteTargets"}
            /\ ~Issued(r2, "members.create")
            /\ ~Issued(r2, "invites.create")
            /\ Done(r2) => Answered(r2, 200)

\* Alice invited the manager into the group twice: the first request created
\* the invitation, the second one was answered 200 as well.
C21_Witness ==
    /\ Repeats(1, 2)
    /\ req[1].kind = "invite"
    /\ req[1].self = Alice
    /\ req[1].body = InviteBody(Arr(<<Str(Mgr)>>), Str(SidOf(2)))
    /\ Issued(1, "invites.create")
    /\ Answered(1, 200)
    /\ Answered(2, 200)

\* C22. A channel leaves the provider only in the catch step of the
\* createChat request that created it: no request removes a channel that
\* existed when it started, whatever failed on it.
C22_OnlyOwnChannelRemoved ==
    [][\A c \in DOMAIN channels \ DOMAIN channels' :
          \E r \in Slots :
              /\ req[r].kind = "create"
              /\ req[r].pc = "removeChannel"
              /\ req'[r].pc = "done"
              /\ \A q \in Slots \ {r} : req'[q] = req[q]
              /\ Issued(r, "channels.create")
              /\ c = SidOf(r)
              /\ c = req[r].newChannel]_vars

\* A createChat that found its channel failed to create the requester's
\* membership, or an inviteToChat failed to create an invitation, and the
\* channel is still there.
C22_Witness ==
    \E r \in Slots :
        /\ Done(r)
        /\ req[r].kind \in {"create", "invite"}
        /\ ~Issued(r, "channels.create")
        /\ req[r].thrown \cap {"members.create", "invites.create"} # {}
        /\ req[r].newChannel \in DOMAIN channels
        /\ req[r].newChannel # SidOf(r)

\* The mirror store failed request r: the query for the Mirror Record or the
\* save of the access list threw.
MirrorFailure(r) ==
    req[r].thrown \cap {"textChat.first", "textChat.save"} # {}

MutatesNewChannel(r) ==
    /\ req[r].kind = "create"
    /\ Issued(r, "channels.create")
    /\ "channels.create" \notin req[r].thrown
    /\ \/ req[r].pc \in {"addMemberNew", "inviteNew"}
       \/ Issued(r, "members.create")
       \/ Issued(r, "invites.create")

\* C24. On the new-channel path the requester and every invitee are users of
\* the provider's service from the first membership mutation on.
C24_UsersBeforeMembers ==
    \A r \in Slots : MutatesNewChannel(r) => Participants(req[r]) \subseteq users

\* A createChat created the users that the service lacked, then its channel's
\* membership and an invitation, and was answered 200.
C24_Witness ==
    \E r \in Slots :
        /\ MutatesNewChannel(r)
        /\ Issued(r, "users.create")
        /\ Issued(r, "members.create")
        /\ Issued(r, "invites.create")
        /\ Answered(r, 200)

\* The step is the one in which request r ends a rebuild through the private
\* branch.
EndsPrivateRebuild(r) ==
    /\ req[r].pc = "aclSave"
    /\ req[r].isPrivate
    /\ req'[r].pc = "done"

\* The identities on the channel's lists.
OnLists(c) == Identities(members[c]) \cup Identities(invites[c])

\* C25. A rebuild through the private branch on a channel whose lists hold
\* an identity without profile ends with the 200 answer and a saved access
\* list that grants read access to the account of every listed identity with
\* a profile, and to no account for the one without.
C25_LookupMissSkipped ==
    [][\A r \in Slots :
          EndsPrivateRebuild(r) /\ OnLists(req[r].newChannel) \ Profiles # {} =>
              /\ req'[r].resp = Resp(200, "", "send")
              /\ BagIn("textChat.save", req'[r].calls)
              /\ \A id \in OnLists(req[r].newChannel) :
                     (userOf(id) \in textChats'[req[r].textChat].acl.userRead)
                         = (id \in Profiles)]_vars

\* An inviteToChat rebuilt the group's access list through the private
\* branch: the list names the accounts of Alice and Bob, and none for the
\* invitee without profile.
C25_Witness ==
    \E r \in Slots :
        /\ Answered(r, 200)
        /\ req[r].isPrivate
        /\ req[r].newChannel = SidOf(2)
        /\ Nobody \in Identities(invites[SidOf(2)])
        /\ \E o \in DOMAIN textChats :
               /\ textChats[o].twilioID = SidOf(2)
               /\ "attendee" \notin textChats[o].acl.roleRead
               /\ {userOf(Alice), userOf(Bob)} \subseteq textChats[o].acl.userRead
               /\ userOf(Nobody) \notin textChats[o].acl.userRead
        /\ \E q \in Slots : q < r /\ Answered(q, 200) /\ req[q].newChannel = SidOf(2)

\* Request r is a createChat for a DM whose channels.create returned and
\* whose catch has not removed the channel.
CreatedDM(r) ==
    /\ req[r].kind = "create"
    /\ req[r].isDM
    /\ Issued(r, "channels.create")
    /\ "channels.create" \notin req[r].thrown
    /\ ~Issued(r, "channel.remove")

HasOutcome(r) ==
    /\ req[r].pc = "done"
    /\ req[r].resp # NoResp

\* C27. Every createChat and inviteToChat request that was started comes to
\* an outcome, also when every provider call fails, the compensating
\* deletion included; and an outcome, once there, is the only one: the
\* request takes no further step.
C27_RequestsFinish ==
    /\ \A r \in Slots : (req[r].pc # "idle") ~> HasOutcome(r)
    /\ [][\A r \in Slots : HasOutcome(r) => req'[r] = req[r]]_vars

\* A createChat whose member creation failed and whose compensating deletion
\* failed as well has finished, with the deletion's error handed to next.
C27_Witness ==
    \E r \in Slots :
        /\ req[r].kind = "create"
        /\ HasOutcome(r)
        /\ "channel.remove" \in req[r].thrown
        /\ req[r].resp = Unhandled

\* Reaction request r, of the given kind, was answered ok for reaction R of
\* the message.
ReactedOk(r, kind, reaction) ==
    /\ reactReq[r].kind = kind
    /\ reactReq[r].pc = "done"
    /\ reactReq[r].resp = OkResp
    /\ ReactionValidate(reactReq[r].body) = NoResp
    /\ reactReq[r].body.reaction.v = reaction
    /\ MessageOf(reactReq[r]) = <<SidOf(1), MessageSid>>

\* C28. No addition is lost: once all reaction requests have been answered,
\* a user whose addReaction of R was answered ok is on the list of R, whether
\* the other request was an addReaction or a removeReaction by another user.
C28_NoLostReaction ==
    \A r1 \in ReactSlots, r2 \in ReactSlots, reaction \in {Thumb, Heart} :
        /\ r1 # r2
        /\ ReactedOk(r1, "add", reaction)
        /\ \/ ReactedOk(r2, "add", reaction)
           \/ ReactedOk(r2, "remove", reaction)
        /\ reactReq[r1].self # reactReq[r2].self
        => Listed(messages[<<SidOf(1), MessageSid>>], reaction, reactReq[r1].self)

\* C29. Under any interleaving, the channel whose SID a createChat returns
\* with status 200 exists at the provider when the answer is sent.
C29_ReturnedChannelExists ==
    [][\A r \in Slots :
          AnswersCreated(r) /\ req'[r].resp.via = "send"
              => req[r].newChannel \in DOMAIN channels']_vars

====
